---- MODULE Spec2Model ----
(***************************************************************************)
(* Model of the plan-and-apply engine of rename_books_by_meta.py:          *)
(* apply_rename_pairs (validation, staging, commit, rollback) over one     *)
(* directory, and build_plans_for_directory / unique_name_with_reserved.   *)
(*                                                                         *)
(* A directory is a function from the names that exist to the content      *)
(* stored under that name.  Path.rename is POSIX rename: it raises when    *)
(* the source name does not exist and replaces an existing destination.    *)
(* Any rename may also raise an OSError (read-only directory, ...): the    *)
(* model injects at most MaxFail such failures per call.                   *)
(* Destinations of a batch range over ordinary file names; the staging     *)
(* names (".rename_tmp_<pid>_<idx>_<name>") are never used as destinations.*)
(***************************************************************************)
EXTENDS Integers, Sequences, FiniteSets, TLC

\* ---------------------------------------------------------------- bounds
MaxPairs == 2   \* longest batch handed to apply_rename_pairs
MaxFail == 2    \* injected rename failures per call
MaxFiles == 3   \* candidate files in a planned directory
MaxText == 3    \* longest text handed to the token and name checks
MaxTitle == 3   \* most words in a title handed to abbreviate_title_phrases
MaxWords == 4   \* most words in a file name handed to build_new_name
MaxApply == 2   \* most calls of do_apply in one run of the TUI
MaxUnits == 2   \* most phrases in a text handed to choose_best_title

\* ------------------------------------------------------- source constants
WINDOWS_FILENAME_LIMIT == 255
SAFE_FILENAME_LIMIT == 200

\* ------------------------------------------------------------ name model
\* File names of the apply model: two names that differ only in letter case,
\* and two more, so that chains, swaps and three-cycles can be formed.
ApplyNames == {"a.pdf", "A.pdf", "b.pdf", "c.pdf"}

\* The entries a planned directory starts with.
PlanNames == {"0.pdf", "A.pdf", "B.EPUB", "a-2.pdf", "a.pdf", "d.pdf", "n.txt"}

\* The entries of the plan model that are directories, not regular files.
DirNames == {"d.pdf"}

\* Names build_new_name proposes in the plan model: the current names of the
\* candidates (the file is then unchanged), the name of the directory entry
\* that is no file, and one name no entry has.
\* A stem that makes a ".pdf" name exactly SAFE_FILENAME_LIMIT characters long.
RECURSIVE Pad(_)
Pad(n) ==
  IF n = 0 THEN ""
  ELSE IF n % 2 = 1 THEN "x" \o Pad(n - 1)
  ELSE LET half == Pad(n \div 2) IN half \o half
LongStem == Pad(SAFE_FILENAME_LIMIT - Len(".pdf"))

DesiredNames ==
  {"0.pdf", "A.pdf", "B.epub", "a-2.pdf", "a.pdf", "d.pdf", LongStem \o ".pdf"}

\* Every name a directory of the plan model can hold, before or after a
\* pass, in the order sorted() gives paths (code-point order: "-" before
\* ".", digits, upper case, lower case).
SortedNames ==
  <<"0-2.pdf", "0-3.pdf", "0.pdf", "A-2.pdf", "A-3.pdf", "A.pdf",
    "B-2.epub", "B-3.epub", "B.EPUB", "B.epub",
    "a-2-2.pdf", "a-2-3.pdf", "a-2.pdf", "a-3.pdf", "a-4.pdf", "a.pdf",
    "d-2.pdf", "d-3.pdf", "d.pdf", "n.txt",
    LongStem \o "-2.pdf", LongStem \o "-3.pdf", LongStem \o ".pdf">>

\* Path(name).stem and Path(name).suffix on the names of the model.
Stems ==
  {"0", "0-2", "0-3", "A", "A-2", "A-3", "B", "B-2", "B-3", "a", "a-2",
   "a-2-2", "a-2-3", "a-3", "a-4", "d", "d-2", "d-3", "n",
   LongStem, LongStem \o "-2", LongStem \o "-3"}
Suffixes == {".pdf", ".txt", ".epub", ".EPUB"}
SplitTable == {<<q[1] \o q[2], q>> : q \in Stems \X Suffixes}
SplitName(n) == (CHOOSE r \in SplitTable : r[1] = n)[2]
PathStem(n) == SplitName(n)[1]
PathSuffix(n) == SplitName(n)[2]

\* str.lower() on the suffixes of the model.
Lower(suffix) ==
  IF suffix = ".EPUB" THEN ".epub"
  ELSE IF suffix = ".PDF" THEN ".pdf"
  ELSE suffix

\* Stems whose letters the case folding changes, with their folded form.
FoldPairs == {<<"A", "a">>, <<"B", "b">>}

\* What can follow a base stem in a name of the model: the suffix, or a
\* collision counter and the suffix.
Rests ==
  {".pdf", ".epub"} \cup
  {"-" \o ToString(k) \o x : k \in 2..(MaxFiles + 4), x \in {".pdf", ".epub"}}

\* str.casefold() on the names of the model.
FoldTable ==
  {<<p[1] \o r, p[2] \o r>> : p \in FoldPairs, r \in Rests}
    \cup {<<"B.EPUB", "b.epub">>}
CaseFold(n) ==
  IF \E t \in FoldTable : t[1] = n
  THEN (CHOOSE t \in FoldTable : t[1] = n)[2]
  ELSE n

\* os.getpid() as it appears in a staging name.
PidStr == "4242"

\* os.urandom(2).hex(): the values the model draws.
RandHex == {"00aa", "ffff"}

\* f".rename_tmp_{os.getpid()}_{idx}_{src.name}"
TmpName(idx, src) ==
  ".rename_tmp_" \o PidStr \o "_" \o ToString(idx) \o "_" \o src

\* f".rename_tmp_{os.getpid()}_{idx}_{os.urandom(2).hex()}_{src.name}"
TmpNameRand(idx, r, src) ==
  ".rename_tmp_" \o PidStr \o "_" \o ToString(idx) \o "_" \o r \o "_" \o src

VARIABLES
  fs,           \* the directory: name -> content, for the names that exist
  fs0,          \* the directory when apply_rename_pairs was called
  rename_pairs, \* the batch: sequence of <<source name, destination name>>
  pc,           \* position in apply_rename_pairs
  idx,          \* loop index of the running loop (0-based, as enumerate)
  temp_moves,   \* sequence of <<tmp, original>>
  final_moves,  \* sequence of <<tmp, destination>>
  changed,      \* commits counted so far
  ret,          \* the returned <<count, error>>, <<-1, "">> while running
  err,          \* the exception that started the rollback, "" if none
  failsLeft,    \* injected failures still available
  staged,       \* history: pair index of each entry of temp_moves
  log,          \* history: the renames performed, in order
  desired,      \* build_new_name's proposal for each candidate file
  file_idx,     \* files of collect_files already planned
  reserved_targets, \* the case-folded destinations assigned so far
  plans,        \* the plans built so far: <<src name, dst, reason>>
  parse_raises, \* the files whose metadata parser raises
  metas,        \* the metadata each planned file was named from
  notes,        \* the length note the preview printed for each plan
  text,         \* a text: the sequence of its characters
  token,        \* normalize_file_token(text)
  token_again,  \* normalize_file_token(token)
  verdict,      \* validate_target_filename(text)
  dest,         \* a destination name joined from sanitized tokens
  dest_verdict, \* validate_target_filename(dest)
  text_done,    \* the steps of the text checks taken so far
  title_in,     \* a title: the sequence of its words and separators
  abbr,         \* abbreviate_title_phrases(title_in)
  abbr_done,    \* whether abbr has been computed
  file_stem,    \* the stem of a file name: its words and separators
  file_suffix,  \* the suffix of that file name
  file_meta,    \* the metadata of that file
  proposal,     \* build_new_name for the file: stem, suffix, author, year
  proposal_again, \* build_new_name for the file renamed to the proposal
  name_done,    \* the passes of build_new_name made so far
  tree,         \* TUI: the folders that exist, each with its directory
  current_dir,  \* PreviewApp.current_dir
  app_plans,    \* PreviewApp.plans
  working_targets, \* PreviewApp.working_targets
  editing_row,  \* PreviewApp.editing_row
  folder_candidate, \* PreviewApp.folder_candidate, NoPath for None
  folder_hidden,  \* #folder_overlay has class "hidden"
  edit_hidden,    \* #edit_overlay has class "hidden"
  message_hidden, \* #message_overlay has class "hidden"
  last_event,   \* history: the handler that ran last
  apply_disabled, \* TUI: the #apply button is disabled
  args,         \* main: the parsed command line
  calls,        \* history: the batches apply_rename_pairs was called with
  call_args,    \* the arguments a function of the naming heuristic is given
  call_value,   \* the value it returned
  call_done     \* whether it has returned

applyVars == <<rename_pairs, pc, idx, temp_moves, final_moves, changed,
               ret, err, failsLeft, staged, log, fs0>>

planVars == <<desired, file_idx, reserved_targets, plans, parse_raises, metas,
              notes>>

textVars == <<text, token, token_again, verdict, dest, dest_verdict, text_done>>

abbrVars == <<title_in, abbr, abbr_done>>

nameVars ==
  <<file_stem, file_suffix, file_meta, proposal, proposal_again, name_done>>

tuiVars ==
  <<tree, current_dir, app_plans, working_targets, editing_row,
    folder_candidate, folder_hidden, edit_hidden, message_hidden, last_event,
    apply_disabled>>

mainVars == <<args, calls>>

callVars == <<call_args, call_value, call_done>>

vars ==
  <<fs, applyVars, planVars, textVars, abbrVars, nameVars, tuiVars, mainVars, callVars>>

NoError == ""

\* The values the variables of the title and naming checks keep while
\* another part of the program runs.
AbbrIdle == title_in = <<>> /\ abbr = <<>> /\ abbr_done = FALSE

NoPath == ""

TuiIdle ==
  /\ tree = <<>>
  /\ current_dir = NoPath
  /\ app_plans = <<>>
  /\ working_targets = <<>>
  /\ editing_row = 0
  /\ folder_candidate = NoPath
  /\ folder_hidden = TRUE
  /\ edit_hidden = TRUE
  /\ message_hidden = TRUE
  /\ last_event = ""
  /\ apply_disabled = FALSE

\* No command line, no call of apply_rename_pairs.
MainIdle ==
  /\ args = <<>>
  /\ calls = <<>>

\* No function of the naming heuristic is called on its own.
CallIdle ==
  /\ call_args = <<>>
  /\ call_value = <<>>
  /\ call_done = FALSE

NameIdle ==
  /\ file_stem = <<>>
  /\ file_suffix = ""
  /\ file_meta = <<>>
  /\ proposal = <<>>
  /\ proposal_again = <<>>
  /\ name_done = 0

\* Path.exists()
Exists(dir, n) == n \in DOMAIN dir

\* The directory after a successful POSIX rename(from, to).
Renamed(dir, from, to) ==
  [n \in (DOMAIN dir \ {from}) \cup {to} |-> IF n = to THEN dir[from] ELSE dir[n]]

Src(p) == p[1]
Dst(p) == p[2]

\* src_set = set(src_paths)
SrcSet(ps) == {Src(ps[k]) : k \in 1..Len(ps)}

\* Variant of ValidateFrom that records the destination name itself, not
\* its case-folded form.
RECURSIVE ValidateFromExact(_, _, _, _)
ValidateFromExact(ps, dir, k, seen) ==
  IF k > Len(ps) THEN NoError
  ELSE LET key == Dst(ps[k])
       IN  IF key \in seen THEN "Duplicate target filename"
           ELSE IF Exists(dir, Dst(ps[k])) /\ Dst(ps[k]) \notin SrcSet(ps)
                THEN "Target already exists"
                ELSE ValidateFromExact(ps, dir, k + 1, seen \cup {key})

\* The validation loop: the error it returns, NoError when it passes.
RECURSIVE ValidateFrom(_, _, _, _)
ValidateFrom(ps, dir, k, seen) ==
  IF k > Len(ps) THEN NoError
  ELSE LET key == CaseFold(Dst(ps[k]))
       IN  IF key \in seen THEN "Duplicate target filename"
           ELSE IF Exists(dir, Dst(ps[k])) /\ Dst(ps[k]) \notin SrcSet(ps)
                THEN "Target already exists"
                ELSE ValidateFrom(ps, dir, k + 1, seen \cup {key})

Validate(ps, dir) == ValidateFrom(ps, dir, 1, {})

\* Variant of TmpChoices that takes the plain staging name without probing
\* the directory.
TmpChoicesUnprobed(dir, i, src) == {TmpName(i, src)}

\* The staging name chosen for pair idx: the plain one, re-randomized while
\* the candidate exists.
TmpChoices(dir, i, src) ==
  IF ~Exists(dir, TmpName(i, src)) THEN {TmpName(i, src)}
  ELSE {TmpNameRand(i, r, src) : r \in {r \in RandHex : ~Exists(dir, TmpNameRand(i, r, src))}}

LogEntry(op, pair, from, to) == [op |-> op, pair |-> pair, from |-> from, to |-> to]

\* ------------------------------------------------------------------ Init
\* Every file holds its own content, named after the name it starts under.
Batches == UNION {[1..n -> ApplyNames \X ApplyNames] : n \in 0..MaxPairs}

Dirs == {[n \in E |-> n] : E \in SUBSET ApplyNames}

\* Left-overs of an earlier run under the staging names the call will probe.
StaleSets(ps) ==
  IF Len(ps) = 0 \/ Src(ps[1]) = Dst(ps[1]) THEN {{}}
  ELSE {{}, {TmpName(0, Src(ps[1]))},
        {TmpName(0, Src(ps[1])), TmpNameRand(0, "00aa", Src(ps[1]))}}

WithStale(dir, S) == [n \in DOMAIN dir \cup S |-> n]

Init ==
  /\ rename_pairs \in Batches
  /\ \E d \in Dirs : \E S \in StaleSets(rename_pairs) : fs = WithStale(d, S)
  /\ fs0 = fs
  /\ pc = "validate"
  /\ idx = 0
  /\ temp_moves = <<>>
  /\ final_moves = <<>>
  /\ changed = 0
  /\ ret = <<-1, NoError>>
  /\ err = NoError
  /\ failsLeft = MaxFail
  /\ staged = <<>>
  /\ log = <<>>
  /\ desired = <<>>
  /\ file_idx = 0
  /\ reserved_targets = {}
  /\ plans = <<>>
  /\ parse_raises = {}
  /\ metas = <<>>
  /\ notes = <<>>
  /\ text = <<>>
  /\ token = <<>>
  /\ token_again = <<>>
  /\ verdict = NoError
  /\ dest = <<>>
  /\ dest_verdict = NoError
  /\ text_done = {}
  /\ AbbrIdle
  /\ NameIdle
  /\ TuiIdle
  /\ MainIdle
  /\ CallIdle

\* --------------------------------------------------------------- actions
\* lines 938-953: the empty batch and the validation loop.
ValidateBatch ==
  /\ pc = "validate"
  /\ IF Len(rename_pairs) = 0
     THEN /\ pc' = "done"
          /\ ret' = <<0, NoError>>
     ELSE IF Validate(rename_pairs, fs) # NoError
          THEN /\ pc' = "done"
               /\ ret' = <<0, Validate(rename_pairs, fs)>>
          ELSE /\ pc' = "stage"
               /\ ret' = ret
  /\ UNCHANGED <<fs, fs0, rename_pairs, idx, temp_moves, final_moves, changed,
                 err, failsLeft, staged, log, planVars, textVars, abbrVars, nameVars, tuiVars, mainVars, callVars>>

\* Variant of StageSkip without the "continue": the pair is staged like any
\* other.
StageNoSkip ==
  /\ pc = "stage"
  /\ idx < Len(rename_pairs)
  /\ LET src == Src(rename_pairs[idx + 1])
         dst == Dst(rename_pairs[idx + 1])
     IN  /\ src = dst
         /\ Exists(fs, src)
         /\ \E tmp \in TmpChoices(fs, idx, src) :
              /\ fs' = Renamed(fs, src, tmp)
              /\ temp_moves' = Append(temp_moves, <<tmp, src>>)
              /\ final_moves' = Append(final_moves, <<tmp, dst>>)
              /\ log' = Append(log, LogEntry("stage", idx, src, tmp))
         /\ staged' = Append(staged, idx)
  /\ idx' = idx + 1
  /\ UNCHANGED <<fs0, rename_pairs, pc, changed, ret, err, failsLeft, planVars, textVars, abbrVars, nameVars, tuiVars, mainVars, callVars>>

\* lines 958-960: a pair whose destination is the source's name is skipped.
StageSkip ==
  /\ pc = "stage"
  /\ idx < Len(rename_pairs)
  /\ Src(rename_pairs[idx + 1]) = Dst(rename_pairs[idx + 1])
  /\ idx' = idx + 1
  /\ UNCHANGED <<fs, fs0, rename_pairs, pc, temp_moves, final_moves, changed,
                 ret, err, failsLeft, staged, log, planVars, textVars, abbrVars, nameVars, tuiVars, mainVars, callVars>>

\* Variant of StageOk that renames the source straight to its destination,
\* with no temporary name and nothing left to commit.
StageOkDirect ==
  /\ pc = "stage"
  /\ idx < Len(rename_pairs)
  /\ LET src == Src(rename_pairs[idx + 1])
         dst == Dst(rename_pairs[idx + 1])
     IN  /\ src # dst
         /\ Exists(fs, src)
         /\ fs' = Renamed(fs, src, dst)
         /\ log' = Append(log, LogEntry("commit", idx, src, dst))
  /\ idx' = idx + 1
  /\ UNCHANGED <<fs0, rename_pairs, pc, temp_moves, final_moves, changed, ret,
                 err, failsLeft, staged, planVars, textVars, abbrVars, nameVars, tuiVars, mainVars, callVars>>

\* lines 961-966: src.rename(tmp) succeeds.
StageOk ==
  /\ pc = "stage"
  /\ idx < Len(rename_pairs)
  /\ LET src == Src(rename_pairs[idx + 1])
         dst == Dst(rename_pairs[idx + 1])
     IN  /\ src # dst
         /\ Exists(fs, src)
         /\ \E tmp \in TmpChoices(fs, idx, src) :
              /\ fs' = Renamed(fs, src, tmp)
              /\ temp_moves' = Append(temp_moves, <<tmp, src>>)
              /\ final_moves' = Append(final_moves, <<tmp, dst>>)
              /\ log' = Append(log, LogEntry("stage", idx, src, tmp))
         /\ staged' = Append(staged, idx)
  /\ idx' = idx + 1
  /\ UNCHANGED <<fs0, rename_pairs, pc, changed, ret, err, failsLeft, planVars, textVars, abbrVars, nameVars, tuiVars, mainVars, callVars>>

\* Variant of StageFail whose handler rolls nothing back.
StageFailNoRollback ==
  /\ pc = "stage"
  /\ idx < Len(rename_pairs)
  /\ LET src == Src(rename_pairs[idx + 1])
         dst == Dst(rename_pairs[idx + 1])
     IN  /\ src # dst
         /\ \/ /\ ~Exists(fs, src)
               /\ failsLeft' = failsLeft
            \/ /\ Exists(fs, src)
               /\ failsLeft > 0
               /\ failsLeft' = failsLeft - 1
  /\ pc' = "rollback"
  /\ err' = "stage"
  /\ idx' = 0
  /\ UNCHANGED <<fs, fs0, rename_pairs, temp_moves, final_moves, changed, ret,
                 staged, log, planVars, textVars, abbrVars, nameVars, tuiVars, mainVars, callVars>>

\* line 964 raises: the source is missing, or the rename fails.
StageFail ==
  /\ pc = "stage"
  /\ idx < Len(rename_pairs)
  /\ LET src == Src(rename_pairs[idx + 1])
         dst == Dst(rename_pairs[idx + 1])
     IN  /\ src # dst
         /\ \/ /\ ~Exists(fs, src)
               /\ failsLeft' = failsLeft
            \/ /\ Exists(fs, src)
               /\ failsLeft > 0
               /\ failsLeft' = failsLeft - 1
  /\ pc' = "rollback"
  /\ err' = "stage"
  /\ idx' = Len(temp_moves)
  /\ UNCHANGED <<fs, fs0, rename_pairs, temp_moves, final_moves, changed, ret,
                 staged, log, planVars, textVars, abbrVars, nameVars, tuiVars, mainVars, callVars>>

\* Variant of StageDone that starts committing as soon as one pair has been
\* looked at.
StageDoneEarly ==
  /\ pc = "stage"
  /\ idx >= 1
  /\ pc' = "commit"
  /\ idx' = 0
  /\ changed' = 0
  /\ UNCHANGED <<fs, fs0, rename_pairs, temp_moves, final_moves, ret, err,
                 failsLeft, staged, log, planVars, textVars, abbrVars, nameVars, tuiVars, mainVars, callVars>>

\* line 968: the staging loop is over, changed = 0.
StageDone ==
  /\ pc = "stage"
  /\ idx = Len(rename_pairs)
  /\ pc' = "commit"
  /\ idx' = 0
  /\ changed' = 0
  /\ UNCHANGED <<fs, fs0, rename_pairs, temp_moves, final_moves, ret, err,
                 failsLeft, staged, log, planVars, textVars, abbrVars, nameVars, tuiVars, mainVars, callVars>>

\* lines 969-971: tmp.rename(dst) succeeds.
CommitOk ==
  /\ pc = "commit"
  /\ idx < Len(final_moves)
  /\ LET tmp == final_moves[idx + 1][1]
         dst == final_moves[idx + 1][2]
     IN  /\ Exists(fs, tmp)
         /\ fs' = Renamed(fs, tmp, dst)
         /\ log' = Append(log, LogEntry("commit", staged[idx + 1], tmp, dst))
  /\ changed' = changed + 1
  /\ idx' = idx + 1
  /\ UNCHANGED <<fs0, rename_pairs, pc, temp_moves, final_moves, ret, err,
                 failsLeft, staged, planVars, textVars, abbrVars, nameVars, tuiVars, mainVars, callVars>>

\* line 970 raises.
CommitFail ==
  /\ pc = "commit"
  /\ idx < Len(final_moves)
  /\ LET tmp == final_moves[idx + 1][1]
     IN  \/ /\ ~Exists(fs, tmp)
            /\ failsLeft' = failsLeft
         \/ /\ Exists(fs, tmp)
            /\ failsLeft > 0
            /\ failsLeft' = failsLeft - 1
  /\ pc' = "rollback"
  /\ err' = "commit"
  /\ idx' = Len(temp_moves)
  /\ UNCHANGED <<fs, fs0, rename_pairs, temp_moves, final_moves, changed, ret,
                 staged, log, planVars, textVars, abbrVars, nameVars, tuiVars, mainVars, callVars>>

\* line 972: return changed, None.
CommitDone ==
  /\ pc = "commit"
  /\ idx = Len(final_moves)
  /\ pc' = "done"
  /\ ret' = <<changed, NoError>>
  /\ UNCHANGED <<fs, fs0, rename_pairs, idx, temp_moves, final_moves, changed,
                 err, failsLeft, staged, log, planVars, textVars, abbrVars, nameVars, tuiVars, mainVars, callVars>>

\* lines 974-977: one entry of reversed(temp_moves) whose tmp exists is
\* renamed back.  idx counts the entries still to visit.
RollbackOk ==
  /\ pc = "rollback"
  /\ idx > 0
  /\ LET tmp == temp_moves[idx][1]
         original == temp_moves[idx][2]
     IN  /\ Exists(fs, tmp)
         /\ fs' = Renamed(fs, tmp, original)
         /\ log' = Append(log, LogEntry("rollback", staged[idx], tmp, original))
  /\ idx' = idx - 1
  /\ UNCHANGED <<fs0, rename_pairs, pc, temp_moves, final_moves, changed, ret,
                 err, failsLeft, staged, planVars, textVars, abbrVars, nameVars, tuiVars, mainVars, callVars>>

\* Variant of RollbackSkip that renames a committed entry from its
\* destination back to its original name.
RollbackUndoCommitted ==
  /\ pc = "rollback"
  /\ idx > 0
  /\ ~Exists(fs, temp_moves[idx][1])
  /\ Exists(fs, final_moves[idx][2])
  /\ fs' = Renamed(fs, final_moves[idx][2], temp_moves[idx][2])
  /\ log' = Append(log, LogEntry("rollback", staged[idx], final_moves[idx][2],
                                 temp_moves[idx][2]))
  /\ idx' = idx - 1
  /\ UNCHANGED <<fs0, rename_pairs, pc, temp_moves, final_moves, changed, ret,
                 err, failsLeft, staged, planVars, textVars, abbrVars, nameVars, tuiVars, mainVars, callVars>>

\* lines 976, 978-979: tmp is gone (the entry was committed), nothing to do.
RollbackSkip ==
  /\ pc = "rollback"
  /\ idx > 0
  /\ ~Exists(fs, temp_moves[idx][1])
  /\ idx' = idx - 1
  /\ UNCHANGED <<fs, fs0, rename_pairs, pc, temp_moves, final_moves, changed,
                 ret, err, failsLeft, staged, log, planVars, textVars, abbrVars, nameVars, tuiVars, mainVars, callVars>>

\* lines 977-979: the rollback rename raises and the exception is swallowed.
RollbackFail ==
  /\ pc = "rollback"
  /\ idx > 0
  /\ Exists(fs, temp_moves[idx][1])
  /\ failsLeft > 0
  /\ failsLeft' = failsLeft - 1
  /\ log' = Append(log, LogEntry("rollback_failed", staged[idx],
                                 temp_moves[idx][1], temp_moves[idx][2]))
  /\ idx' = idx - 1
  /\ UNCHANGED <<fs, fs0, rename_pairs, pc, temp_moves, final_moves, changed,
                 ret, err, staged, planVars, textVars, abbrVars, nameVars, tuiVars, mainVars, callVars>>

\* line 980: return 0, str(e).
RollbackDone ==
  /\ pc = "rollback"
  /\ idx = 0
  /\ pc' = "done"
  /\ ret' = <<0, err>>
  /\ UNCHANGED <<fs, fs0, rename_pairs, idx, temp_moves, final_moves, changed,
                 err, failsLeft, staged, log, planVars, textVars, abbrVars, nameVars, tuiVars, mainVars, callVars>>

Next ==
  \/ ValidateBatch
  \/ StageSkip
  \/ StageOk
  \/ StageFail
  \/ StageDone
  \/ CommitOk
  \/ CommitFail
  \/ CommitDone
  \/ RollbackOk
  \/ RollbackSkip
  \/ RollbackFail
  \/ RollbackDone

Spec == Init /\ [][Next]_vars

\* ------------------------------------------------------- the plan builder
\* p.is_file() and p.suffix.lower() in {".epub", ".pdf"}
IsCandidate(dir, n) ==
  dir[n] \notin DirNames /\ Lower(PathSuffix(n)) \in {".epub", ".pdf"}

\* collect_files: the candidates among sorted(dir_path.iterdir()).
CollectFiles(dir) ==
  SelectSeq(SortedNames, LAMBDA n : Exists(dir, n) /\ IsCandidate(dir, n))

\* BookMeta(): every field absent; any other metadata is "parsed".
EmptyMeta == "BookMeta()"
ParsedMeta == "parsed"

\* lines 918-925: the metadata the file is named from.  Metadata is read
\* from the content of the file: it stays with the file when it is renamed.
MetaOfIn(dir, file_path) ==
  IF dir[file_path] \in parse_raises THEN EmptyMeta ELSE ParsedMeta

MetaOf(file_path) == MetaOfIn(fs, file_path)

\* build_new_name on the names of the plan model.  From parsed metadata the
\* proposal is the input desired[file_path]; from BookMeta() the title is
\* the stem of the file (one short token, no author, no year) and the
\* suffix is lower-cased.
ProposalIn(dir, file_path) ==
  IF MetaOfIn(dir, file_path) = EmptyMeta
  THEN PathStem(file_path) \o Lower(PathSuffix(file_path))
  ELSE desired[dir[file_path]]

Proposal(file_path) == ProposalIn(fs, file_path)

\* reason["name_len"] = str(len(new_name)), read back by int().
Reason(new_name) == [name_len |-> Len(new_name)]

\* Variant of UniqueFrom that probes the directory only and ignores the
\* names reserved by earlier files.
RECURSIVE UniqueFromExistsOnly(_, _, _, _, _, _)
UniqueFromExistsOnly(dir, candidate, base, suffix, n, reserved) ==
  IF Exists(dir, candidate)
  THEN UniqueFromExistsOnly(dir, base \o "-" \o ToString(n) \o suffix, base,
                            suffix, n + 1, reserved)
  ELSE candidate

\* unique_name_with_reserved: the loop, from candidate and counter n on.
RECURSIVE UniqueFrom(_, _, _, _, _, _)
UniqueFrom(dir, candidate, base, suffix, n, reserved) ==
  IF Exists(dir, candidate) \/ CaseFold(candidate) \in reserved
  THEN UniqueFrom(dir, base \o "-" \o ToString(n) \o suffix, base, suffix,
                  n + 1, reserved)
  ELSE candidate

unique_name_with_reserved(dir, desired_name, reserved) ==
  UniqueFrom(dir, desired_name, PathStem(desired_name),
             PathSuffix(desired_name), 2, reserved)

PlanDirs ==
  {d \in {[n \in E |-> n] : E \in SUBSET PlanNames} :
     Len(CollectFiles(d)) \in 1..MaxFiles}

\* A planning pass starts: the directory and what build_new_name will
\* propose for each candidate (any name; its own name means "unchanged").
PlanInit ==
  /\ fs \in PlanDirs
  /\ desired \in [{CollectFiles(fs)[k] : k \in 1..Len(CollectFiles(fs))}
                    -> DesiredNames]
  /\ \A f \in DOMAIN desired : PathSuffix(desired[f]) = Lower(PathSuffix(f))
  /\ parse_raises \in SUBSET (DOMAIN desired)
  /\ metas = <<>>
  /\ notes = <<>>
  /\ text = <<>>
  /\ token = <<>>
  /\ token_again = <<>>
  /\ verdict = NoError
  /\ dest = <<>>
  /\ dest_verdict = NoError
  /\ text_done = {}
  /\ AbbrIdle
  /\ NameIdle
  /\ TuiIdle
  /\ MainIdle
  /\ CallIdle
  /\ file_idx = 0
  /\ reserved_targets = {}
  /\ plans = <<>>
  /\ fs0 = fs
  /\ rename_pairs = <<>>
  /\ pc = "plan"
  /\ idx = 0
  /\ temp_moves = <<>>
  /\ final_moves = <<>>
  /\ changed = 0
  /\ ret = <<-1, NoError>>
  /\ err = NoError
  /\ failsLeft = 0
  /\ staged = <<>>
  /\ log = <<>>

\* Variant of PlanRename in which a raising parser ends the pass.
PlanRenameAbort ==
  /\ pc = "plan"
  /\ file_idx < Len(CollectFiles(fs))
  /\ LET file_path == CollectFiles(fs)[file_idx + 1]
         new_name == Proposal(file_path)
         final_name == unique_name_with_reserved(fs, new_name, reserved_targets)
     IN  /\ new_name # file_path
         /\ IF file_path \in parse_raises
            THEN /\ pc' = "planned"
                 /\ UNCHANGED <<reserved_targets, plans, metas, file_idx>>
            ELSE /\ reserved_targets' = reserved_targets \cup {CaseFold(final_name)}
                 /\ plans' = Append(plans, <<file_path, final_name, Reason(new_name)>>)
                 /\ metas' = Append(metas, MetaOf(file_path))
                 /\ file_idx' = file_idx + 1
                 /\ pc' = pc
  /\ UNCHANGED <<fs, fs0, rename_pairs, idx, temp_moves, final_moves, changed,
                 ret, err, failsLeft, staged, log, desired, parse_raises, notes, textVars, abbrVars, nameVars, tuiVars, mainVars, callVars>>

\* lines 918-929, 932-933: the proposal is the current name and is kept.
PlanKeep ==
  /\ pc = "plan"
  /\ file_idx < Len(CollectFiles(fs))
  /\ LET file_path == CollectFiles(fs)[file_idx + 1]
         new_name == Proposal(file_path)
         final_name == new_name
     IN  /\ new_name = file_path
         /\ reserved_targets' = reserved_targets \cup {CaseFold(final_name)}
         /\ plans' = Append(plans, <<file_path, final_name, Reason(new_name)>>)
         /\ metas' = Append(metas, MetaOf(file_path))
  /\ file_idx' = file_idx + 1
  /\ pc' = pc
  /\ UNCHANGED <<fs, fs0, rename_pairs, idx, temp_moves, final_moves, changed,
                 ret, err, failsLeft, staged, log, desired, parse_raises, notes, textVars, abbrVars, nameVars, tuiVars, mainVars, callVars>>

\* lines 918-927, 930-933: the proposal differs and is made unique.
PlanRename ==
  /\ pc = "plan"
  /\ file_idx < Len(CollectFiles(fs))
  /\ LET file_path == CollectFiles(fs)[file_idx + 1]
         new_name == Proposal(file_path)
         final_name == unique_name_with_reserved(fs, new_name, reserved_targets)
     IN  /\ new_name # file_path
         /\ reserved_targets' = reserved_targets \cup {CaseFold(final_name)}
         /\ plans' = Append(plans, <<file_path, final_name, Reason(new_name)>>)
         /\ metas' = Append(metas, MetaOf(file_path))
  /\ file_idx' = file_idx + 1
  /\ pc' = pc
  /\ UNCHANGED <<fs, fs0, rename_pairs, idx, temp_moves, final_moves, changed,
                 ret, err, failsLeft, staged, log, desired, parse_raises, notes, textVars, abbrVars, nameVars, tuiVars, mainVars, callVars>>

\* line 934: return plans.
PlanReturn ==
  /\ pc = "plan"
  /\ file_idx = Len(CollectFiles(fs))
  /\ pc' = "planned"
  /\ UNCHANGED <<fs, fs0, rename_pairs, idx, temp_moves, final_moves, changed,
                 ret, err, failsLeft, staged, log, planVars, textVars, abbrVars, nameVars, tuiVars, mainVars, callVars>>

\* render_cli_preview, lines 990-998: the length note for one plan.
LengthNote(dst_len) ==
  IF dst_len > WINDOWS_FILENAME_LIMIT THEN " [WARN: >255]"
  ELSE IF dst_len > SAFE_FILENAME_LIMIT THEN " [WARN: >200]"
  ELSE ""

\* render_cli_preview over the returned plans.
PlanPreview ==
  /\ pc = "planned"
  /\ pc' = "previewed"
  /\ notes' = [i \in 1..Len(plans) |-> LengthNote(plans[i][3].name_len)]
  /\ UNCHANGED <<fs, fs0, rename_pairs, idx, temp_moves, final_moves, changed,
                 ret, err, failsLeft, staged, log, desired, file_idx,
                 reserved_targets, plans, parse_raises, metas, textVars, abbrVars, nameVars, tuiVars, mainVars, callVars>>

PlanNext ==
  \/ PlanKeep
  \/ PlanRename
  \/ PlanReturn
  \/ PlanPreview

PlanSpec == PlanInit /\ [][PlanNext]_vars

\* -------------------------------------------------- texts and characters
\* A text is the sequence of its characters.  The characters of the model:
\* a letter, the two white-space characters, and one or two of each class
\* the sanitizer and the validator treat specially.
TextChars == {"a", " ", "\t", ".", "_", "/", "\\", ":", "("}

\* str.strip() and the regular expression \s
Whitespace == {" ", "\t"}

\* [\\/:*?"<>|]
IllegalChars == {"\\", "/", ":", "*", "?", "\"", "<", ">", "|"}

\* [.,;()\[\]{}]
PunctChars == {".", ",", ";", "(", ")", "[", "]", "{", "}"}

\* [:*?"<>|]
WindowsChars == {":", "*", "?", "\"", "<", ">", "|"}

Contains(s, set) == \E i \in 1..Len(s) : s[i] \in set

\* str.lstrip(set), str.rstrip(set), str.strip(set)
RECURSIVE LStrip(_, _)
LStrip(s, set) ==
  IF s # <<>> /\ Head(s) \in set THEN LStrip(Tail(s), set) ELSE s

RECURSIVE RStrip(_, _)
RStrip(s, set) ==
  IF s # <<>> /\ s[Len(s)] \in set
  THEN RStrip(SubSeq(s, 1, Len(s) - 1), set)
  ELSE s

Strip(s, set) == RStrip(LStrip(s, set), set)

\* An assignment "v = x" followed by the statements F that use v: x is
\* evaluated once, before F is.
Then(x, F(_)) == CHOOSE r \in {F(v) : v \in {x}} : TRUE

\* re.sub("[set]", r, s)
SubEach(s, set, r) == [i \in 1..Len(s) |-> IF s[i] \in set THEN r ELSE s[i]]

\* re.sub("[set]+", r, s): every maximal run of characters of set becomes r.
RECURSIVE SubRuns(_, _, _)
SubRuns(s, set, r) ==
  IF s = <<>> THEN <<>>
  ELSE IF Head(s) \in set
       THEN <<r>> \o SubRuns(LStrip(s, set), set, r)
       ELSE <<Head(s)>> \o SubRuns(Tail(s), set, r)

\* The placeholder "Unknown".
Unknown == <<"U", "n", "k", "n", "o", "w", "n">>

\* Variant of normalize_file_token that joins white space into "_" before
\* the reserved characters and the punctuation are replaced by spaces.
normalize_file_token_joining_first(t) ==
  LET v1 == Strip(t, Whitespace)
      v2 == SubRuns(v1, Whitespace, "_")
      v3 == SubEach(v2, IllegalChars, " ")
      v4 == SubEach(v3, PunctChars, " ")
      v5 == Strip(SubRuns(v4, {"_"}, "_"), {"_", " ", "."})
  IN  IF v5 = <<>> THEN Unknown ELSE v5

\* Variant of normalize_file_token without the final strip("_ .").
normalize_file_token_unstripped(t) ==
  LET v1 == Strip(t, Whitespace)
      v2 == SubEach(v1, IllegalChars, " ")
      v3 == SubEach(v2, PunctChars, " ")
      v4 == SubRuns(v3, Whitespace, "_")
      v5 == SubRuns(v4, {"_"}, "_")
  IN  IF v5 = <<>> THEN Unknown ELSE v5

\* normalize_file_token, lines 372-377.
normalize_file_token(t) ==
  LET v1 == Strip(t, Whitespace)
      v2 == SubEach(v1, IllegalChars, " ")
      v3 == SubEach(v2, PunctChars, " ")
      v4 == SubRuns(v3, Whitespace, "_")
      v5 == Strip(SubRuns(v4, {"_"}, "_"), {"_", " ", "."})
  IN  IF v5 = <<>> THEN Unknown ELSE v5

\* The return value None of validate_target_filename.
NoCode == "None"

\* Variant of validate_target_filename that tests the reserved characters
\* before the path separators.
validate_target_filename_reordered(name) ==
  LET value == Strip(name, Whitespace)
  IN  IF value = <<>> THEN "target_empty"
      ELSE IF Contains(value, WindowsChars) THEN "target_windows_illegal_chars"
      ELSE IF Contains(value, {"/", "\\"}) THEN "target_path_separators"
      ELSE IF value \in {<<".">>, <<".", ".">>} THEN "target_invalid_dot"
      ELSE NoCode

\* validate_target_filename, lines 902-911.
validate_target_filename(name) ==
  LET value == Strip(name, Whitespace)
  IN  IF value = <<>> THEN "target_empty"
      ELSE IF Contains(value, {"/", "\\"}) THEN "target_path_separators"
      ELSE IF Contains(value, WindowsChars) THEN "target_windows_illegal_chars"
      ELSE IF value \in {<<".">>, <<".", ".">>} THEN "target_invalid_dot"
      ELSE NoCode

\* The texts of at most n characters.
TextsUpTo(n) == UNION {[1..k -> TextChars] : k \in 0..n}

\* "-".join(stem_parts), the collision counter unique_name_with_reserved may
\* add (0: none) and the suffix: lines 799-804 and 833.
JoinName(title, author, year, n, suffix) ==
  title
  \o (IF author = <<>> THEN <<>> ELSE <<"-">> \o author)
  \o (IF year = <<>> THEN <<>> ELSE <<"-">> \o year)
  \o (IF n = 0 THEN <<>> ELSE <<"-", ToString(n)>>)
  \o suffix

YearChars == <<"2", "0", "0", "8">>
PdfChars == <<".", "p", "d", "f">>

TextInit ==
  /\ text \in TextsUpTo(MaxText)
  /\ token = <<>>
  /\ token_again = <<>>
  /\ verdict = NoError
  /\ dest = <<>>
  /\ dest_verdict = NoError
  /\ text_done = {}
  /\ AbbrIdle
  /\ NameIdle
  /\ TuiIdle
  /\ MainIdle
  /\ CallIdle
  /\ fs = <<>>
  /\ fs0 = <<>>
  /\ rename_pairs = <<>>
  /\ pc = "text"
  /\ idx = 0
  /\ temp_moves = <<>>
  /\ final_moves = <<>>
  /\ changed = 0
  /\ ret = <<-1, NoError>>
  /\ err = NoError
  /\ failsLeft = 0
  /\ staged = <<>>
  /\ log = <<>>
  /\ desired = <<>>
  /\ file_idx = 0
  /\ reserved_targets = {}
  /\ plans = <<>>
  /\ parse_raises = {}
  /\ metas = <<>>
  /\ notes = <<>>

\* token = normalize_file_token(text)
Sanitize ==
  /\ pc = "text"
  /\ "sanitize" \notin text_done
  /\ token' = normalize_file_token(text)
  /\ text_done' = text_done \cup {"sanitize"}
  /\ UNCHANGED <<fs, applyVars, planVars, tuiVars, mainVars, callVars, abbrVars, nameVars, text, token_again, verdict, dest,
                 dest_verdict>>

\* The sanitizer applied to its own result.
SanitizeAgain ==
  /\ pc = "text"
  /\ "sanitize" \in text_done
  /\ "sanitize_again" \notin text_done
  /\ token_again' = normalize_file_token(token)
  /\ text_done' = text_done \cup {"sanitize_again"}
  /\ UNCHANGED <<fs, applyVars, planVars, tuiVars, mainVars, callVars, abbrVars, nameVars, text, token, verdict, dest,
                 dest_verdict>>

\* verdict = validate_target_filename(text)
ValidateName ==
  /\ pc = "text"
  /\ "validate" \notin text_done
  /\ verdict' = validate_target_filename(text)
  /\ text_done' = text_done \cup {"validate"}
  /\ UNCHANGED <<fs, applyVars, planVars, tuiVars, mainVars, callVars, abbrVars, nameVars, text, token, token_again, dest,
                 dest_verdict>>

\* A destination as build_new_name and unique_name_with_reserved join it:
\* the title token, the author token or none, a year or none, a collision
\* counter or none, and the suffix; and what the validator says of it.
ValidateDestination ==
  /\ pc = "text"
  /\ "sanitize" \in text_done
  /\ "destination" \notin text_done
  /\ \E author \in {<<>>, token}, year \in {<<>>, YearChars}, n \in {0, 2} :
       /\ dest' = JoinName(token, author, year, n, PdfChars)
       /\ dest_verdict' = validate_target_filename(dest')
  /\ text_done' = text_done \cup {"destination"}
  /\ UNCHANGED <<fs, applyVars, planVars, tuiVars, mainVars, callVars, abbrVars, nameVars, text, token, token_again, verdict>>

TextNext ==
  \/ Sanitize
  \/ SanitizeAgain
  \/ ValidateName
  \/ ValidateDestination

TextSpec == TextInit /\ [][TextNext]_vars

\* ------------------------------------------------------ names and titles
\* In the naming functions a text is the sequence of its words and of the
\* separator characters between them; a word stands for its letters.  The
\* words of the model contain no separator, no parenthesis and no word of
\* the model is part of another, so a pattern matches inside a text exactly
\* where it matches the items.
YearWords == {"2001", "2008"}                  \* (19\d{2}|20\d{2}|2100)
CapitalWords == {"Code", "Robert", "Martin"}   \* [A-Za-z][A-Za-z.'-]*, upper-case first
AlphaWords == CapitalWords \cup {"of"}         \* [A-Za-z][A-Za-z.'-]*
NoiseWords == {"1lib"}                         \* NOISE_PATTERNS
PlaceholderWords == {"UnknownYear", "UnknownAuthor"}
OpaqueIds == {"B01ABCDEFG"}                    \* B[0-9A-Z]{9}
DegreeWords == {"PhD", "MD"}

\* None, and the empty string, of a text-valued result.
NoText == <<>>

\* The characters that never belong to a word.
SeparatorItems == Whitespace \cup {"_", "-", ",", ";", ":", "|", "/", "."}

IsWord(x) == x \notin SeparatorItems

\* \b on both sides of the word at position i: "_" counts as a word character.
Bounded(t, i) ==
  /\ (i = 1 \/ t[i - 1] # "_")
  /\ (i = Len(t) \/ t[i + 1] # "_")

\* The index of the first item of t that is in set, 0 if there is none.
RECURSIVE FirstIn(_, _, _)
FirstIn(t, set, i) ==
  IF i > Len(t) THEN 0
  ELSE IF t[i] \in set THEN i
  ELSE FirstIn(t, set, i + 1)

\* The index at which pat first occurs in t from position i on, 0 if nowhere.
RECURSIVE Find(_, _, _)
Find(t, pat, i) ==
  IF i + Len(pat) - 1 > Len(t) THEN 0
  ELSE IF SubSeq(t, i, i + Len(pat) - 1) = pat THEN i
  ELSE Find(t, pat, i + 1)

StartsWith(t, pat) == Len(pat) <= Len(t) /\ SubSeq(t, 1, Len(pat)) = pat
EndsWith(t, pat) ==
  Len(pat) <= Len(t) /\ SubSeq(t, Len(t) - Len(pat) + 1, Len(t)) = pat
DropLast(t, n) == SubSeq(t, 1, Len(t) - n)
DropFirst(t, n) == SubSeq(t, n + 1, Len(t))

\* re.split("[set]+", t)
RECURSIVE SplitRuns(_, _)
SplitRuns(t, set) ==
  IF FirstIn(t, set, 1) = 0 THEN <<t>>
  ELSE LET i == FirstIn(t, set, 1)
       IN  <<SubSeq(t, 1, i - 1)>> \o SplitRuns(LStrip(DropFirst(t, i - 1), set), set)

\* len(text)
RECURSIVE TextLen(_)
TextLen(t) == IF t = <<>> THEN 0 ELSE Len(Head(t)) + TextLen(Tail(t))

\* extract_year: the first match of the year pattern, "" for None.
RECURSIVE extract_year(_)
extract_year(t) ==
  IF t = <<>> THEN ""
  ELSE IF Head(t) \in YearWords THEN Head(t)
  ELSE extract_year(Tail(t))

\* clean_text, lines 361-368 (no text of the model has a parenthesis).
clean_text(t) ==
  LET v1 == SelectSeq(t, LAMBDA x : x \notin NoiseWords)
      keep == {i \in 1..Len(v1) : ~(v1[i] \in PlaceholderWords /\ Bounded(v1, i))}
      v2 == [k \in 1..Cardinality(keep) |->
               v1[CHOOSE i \in keep : Cardinality({j \in keep : j < i}) = k - 1]]
  IN  Strip(SubRuns(v2, Whitespace, " "), {" ", ".", "_", "-"})

\* The words of the model that match \d+(st|nd|rd|th), with the token that
\* replaces "<word> Edition" (lines 387-392).
NumberedRewrites == << <<{"3rd", "3RD"}, "3e">> >>

NumberedWords == UNION {NumberedRewrites[k][1] : k \in 1..Len(NumberedRewrites)}

EditionWords == {"Edition", "edition", "EDITION"}

\* The end of the phrase "<word of firsts> \s+ Edition" starting at i, 0 if
\* there is none there.
PhraseEnd(t, i, firsts) ==
  IF ~(t[i] \in firsts /\ (i = 1 \/ t[i - 1] # "_")) THEN 0
  ELSE LET j == Len(t) - Len(LStrip(DropFirst(t, i), Whitespace)) + 1
       IN  IF j > i + 1 /\ j <= Len(t) /\ t[j] \in EditionWords
              /\ (j = Len(t) \/ t[j + 1] # "_")
           THEN j ELSE 0

\* The first position from i on where such a phrase starts, 0 if none.
RECURSIVE FindPhrase(_, _, _)
FindPhrase(t, i, firsts) ==
  IF i > Len(t) THEN 0
  ELSE IF PhraseEnd(t, i, firsts) # 0 THEN i
  ELSE FindPhrase(t, i + 1, firsts)

\* main_title_only, lines 432-443 (the model has no "A Novel about").
main_title_only(title) ==
  LET t == clean_text(title)
      seps == << <<" ", "-", "-", " ">>, <<" ", "-", " ">>, <<":", " ">> >>
      hits == {k \in 1..Len(seps) : Find(t, seps[k], 1) # 0}
  IN  IF hits = {} THEN Strip(t, Whitespace)
      ELSE LET k == CHOOSE k \in hits : \A m \in hits : k <= m
               i == Find(t, seps[k], 1)
               head == SubSeq(t, 1, i - 1)
               tail == DropFirst(t, i + Len(seps[k]) - 1)
               e == FindPhrase(tail, 1, NumberedWords)
           IN  IF e # 0
               THEN Strip(head \o <<" ">> \o SubSeq(tail, e, PhraseEnd(tail, e, NumberedWords)),
                          Whitespace)
               ELSE Strip(head, Whitespace)

\* re.fullmatch(r"B[0-9A-Z]{9}(?:\s*\(.*\))?", t): an identifier, alone or
\* followed by a parenthetical that runs to the end of t.
IsOpaqueId(t) ==
  /\ t # <<>>
  /\ t[1] \in OpaqueIds
  /\ \/ Len(t) = 1
     \/ LET rest == LStrip(Tail(t), Whitespace)
        IN  Len(rest) >= 2 /\ rest[1] = "(" /\ rest[Len(rest)] = ")"

\* Variant of looks_like_bad_title that takes an identifier for a title.
looks_like_bad_title_keeping_ids(title) ==
  \/ title = NoText
  \/ TextLen(Strip(title, Whitespace)) < 3

\* looks_like_bad_title, lines 447-454.
looks_like_bad_title(title) ==
  \/ title = NoText
  \/ TextLen(Strip(title, Whitespace)) < 3
  \/ IsOpaqueId(Strip(title, Whitespace))

\* " ".join(tokens)
RECURSIVE JoinWords(_)
JoinWords(tokens) ==
  IF tokens = <<>> THEN <<>>
  ELSE IF Len(tokens) = 1 THEN Head(tokens)
  ELSE Head(tokens) \o <<" ">> \o JoinWords(Tail(tokens))

\* The non-empty pieces of t between runs of characters of set.
Pieces(t, set) == SelectSeq(SplitRuns(t, set), LAMBDA x : x # <<>>)

\* re.sub(r"\b(PhD|M\.D\.|MD)\b", "", value), from item i on: a degree word
\* between word boundaries, and "M.D." where a word character follows its
\* last dot (the \b after "\.").
RECURSIVE DropDegrees(_, _)
DropDegrees(t, i) ==
  IF i > Len(t) THEN <<>>
  ELSE IF t[i] \in DegreeWords /\ Bounded(t, i) THEN DropDegrees(t, i + 1)
  ELSE IF /\ i + 4 <= Len(t)
          /\ SubSeq(t, i, i + 3) = <<"M", ".", "D", ".">>
          /\ (i = 1 \/ (t[i - 1] \in SeparatorItems /\ t[i - 1] # "_"))
          /\ (IsWord(t[i + 4]) \/ t[i + 4] = "_")
       THEN DropDegrees(t, i + 4)
  ELSE <<t[i]>> \o DropDegrees(t, i + 1)

\* Where the pattern ,|;| and | & first matches in t from item i on, 0 if
\* nowhere.
RECURSIVE FirstAuthorCut(_, _)
FirstAuthorCut(t, i) ==
  IF i > Len(t) THEN 0
  ELSE IF t[i] \in {",", ";"} THEN i
  ELSE IF /\ t[i] = " "
          /\ i + 2 <= Len(t)
          /\ t[i + 1] \in {"and", "&"}
          /\ t[i + 2] = " "
       THEN i
  ELSE FirstAuthorCut(t, i + 1)

\* split_first_author, lines 509-528 (None is NoText).
split_first_author(author_text) ==
  IF author_text = NoText THEN NoText
  ELSE LET v1 == Strip(Strip(author_text, Whitespace), {";"})
           v2 == Strip(DropDegrees(v1, 1), {" ", ",", ";"})
           cut == FirstAuthorCut(v2, 1)
           first == Strip(IF cut = 0 THEN v2 ELSE SubSeq(v2, 1, cut - 1), Whitespace)
           parts == Pieces(first, {","})
           swapped == IF Contains(first, {","}) /\ Len(parts) >= 2
                      THEN Strip(parts[2], Whitespace) \o <<" ">>
                           \o Strip(parts[1], Whitespace)
                      ELSE first
       IN  SubRuns(swapped, Whitespace, " ")

\* author_from_filename, lines 551-565: the inference from the hyphen
\* segments (no name of the model has a parenthesised group).
author_from_filename(name_stem) ==
  LET segments == SplitRuns(name_stem, {"-"})
      stripped == [k \in 1..Len(segments) |-> Strip(segments[k], Whitespace)]
      parts == SelectSeq(stripped, LAMBDA x : x # <<>>)
      last == Len(parts)
      at == IF last > 0 /\ Len(parts[last]) = 1
               /\ parts[last][1] \in YearWords \cup {"UnknownYear"}
            THEN last - 1 ELSE last
  IN  IF at < 1 THEN NoText
      ELSE LET tokens == Pieces(parts[at], {"_"} \cup Whitespace)
               alpha == \A k \in 1..Len(tokens) :
                          Len(tokens[k]) = 1 /\ tokens[k][1] \in AlphaWords
               upper == \A k \in 1..Len(tokens) : tokens[k][1] \in CapitalWords
           IN  IF Len(tokens) \in 1..3 /\ alpha
               THEN IF Len(tokens) >= 2 /\ upper THEN JoinWords(tokens)
                    ELSE IF Len(tokens) = 1 /\ Len(tokens[1][1]) >= 4 /\ upper
                         THEN tokens[1]
                         ELSE NoText
               ELSE NoText

\* [\s_\-,:|/] of strip_author_from_title, and the set of its strip().
SepChars == Whitespace \cup {"_", "-", ",", ":", "|", "/"}
TrimChars == {" ", "_", "-", ",", "|", ":", "/"}

\* The year pattern of strip_author_from_title matches word w.
YearMatches(w, year) == IF year # "" THEN w = year ELSE w \in YearWords

\* re.sub of the first pattern (line 581): the tail "author [year]".
StripTail(t, author, year) ==
  LET u == RStrip(t, Whitespace)
      w == IF u # <<>> THEN RStrip(DropLast(u, 1), SepChars) ELSE <<>>
  IN  IF u # <<>> /\ YearMatches(u[Len(u)], year) /\ EndsWith(w, author)
      THEN RStrip(DropLast(w, Len(author)), SepChars)
      ELSE IF EndsWith(u, author)
           THEN RStrip(DropLast(u, Len(author)), SepChars)
           ELSE t

\* re.sub of the second pattern (line 582): the tail "year author".
StripYearAuthorTail(t, author, year) ==
  LET u == RStrip(t, Whitespace)
      w == IF EndsWith(u, author)
           THEN RStrip(DropLast(u, Len(author)), SepChars) ELSE <<>>
  IN  IF EndsWith(u, author) /\ w # <<>> /\ YearMatches(w[Len(w)], year)
      THEN RStrip(DropLast(w, 1), SepChars)
      ELSE t

\* re.sub of the third pattern (line 583): the head "author".
StripHead(t, author) ==
  LET u == LStrip(t, Whitespace)
  IN  IF StartsWith(u, author)
      THEN LStrip(DropFirst(u, Len(author)), SepChars)
      ELSE t

\* strip_author_from_title, lines 569-592.  re.escape leaves "_" as it is,
\* so the author pattern is the author token itself.
strip_author_from_title(title, author_text, year) ==
  IF title = NoText \/ author_text = NoText THEN title
  ELSE LET author == normalize_file_token(author_text)
           c1 == Strip(StripTail(title, author, year), TrimChars)
           c2 == Strip(StripYearAuthorTail(c1, author, year), TrimChars)
           c3 == Strip(StripHead(c2, author), TrimChars)
       IN  IF c3 = <<>> THEN title ELSE c3

\* The spellings of a word that the model's titles use; the patterns of
\* abbreviate_title_phrases ignore letter case.
Spellings(capital, lower, upper) == {capital, lower, upper}

\* word_ordinal, lines 394-405, in the order of the loop of line 406.
OrdinalRewrites ==
  << <<Spellings("First", "first", "FIRST"), "1e">>,
     <<Spellings("Second", "second", "SECOND"), "2e">>,
     <<Spellings("Third", "third", "THIRD"), "3e">>,
     <<Spellings("Fourth", "fourth", "FOURTH"), "4e">>,
     <<Spellings("Fifth", "fifth", "FIFTH"), "5e">>,
     <<Spellings("Sixth", "sixth", "SIXTH"), "6e">>,
     <<Spellings("Seventh", "seventh", "SEVENTH"), "7e">>,
     <<Spellings("Eighth", "eighth", "EIGHTH"), "8e">>,
     <<Spellings("Ninth", "ninth", "NINTH"), "9e">>,
     <<Spellings("Tenth", "tenth", "TENTH"), "10e">> >>

\* The two-word entries of replacements, lines 411-416.
QualifierRewrites ==
  << <<Spellings("Revised", "revised", "REVISED"), "RevEd">>,
     <<Spellings("Updated", "updated", "UPDATED"), "UpdEd">>,
     <<Spellings("International", "international", "INTERNATIONAL"), "IntlEd">>,
     <<Spellings("Collectors", "Collector's", "collectors"), "CollEd">>,
     <<Spellings("Special", "special", "SPECIAL"), "SpecEd">>,
     <<Spellings("Student", "student", "STUDENT"), "StuEd">> >>

\* The one-word entries of replacements, lines 417-422 ("Vol." is apart).
WordRewrites ==
  << <<EditionWords, "Ed">>,
     <<Spellings("Release", "release", "RELEASE"), "Rel">>,
     <<Spellings("Volume", "volume", "VOLUME"), "Vol">>,
     <<Spellings("Part", "part", "PART"), "Pt">>,
     <<Spellings("Number", "number", "NUMBER"), "No">> >>

\* re.sub(r"\b<word>\s+Edition\b", repl, t) for the words of firsts.
RECURSIVE RewritePhrases(_, _, _, _)
RewritePhrases(t, i, firsts, repl) ==
  IF i > Len(t) THEN <<>>
  ELSE IF PhraseEnd(t, i, firsts) # 0
       THEN <<repl>> \o RewritePhrases(t, PhraseEnd(t, i, firsts) + 1, firsts, repl)
       ELSE <<t[i]>> \o RewritePhrases(t, i + 1, firsts, repl)

\* The phrase rewrites of a table, one after the other: those of its first
\* half, then those of its second half.
RECURSIVE RewriteTable(_, _)
RewriteTable(t, table) ==
  IF table = <<>> THEN t
  ELSE IF Len(table) = 1
       THEN RewritePhrases(t, 1, table[1][1], table[1][2])
       ELSE Then(RewriteTable(t, SubSeq(table, 1, Len(table) \div 2)),
                 LAMBDA value :
                   RewriteTable(value, SubSeq(table, Len(table) \div 2 + 1,
                                              Len(table))))

\* re.sub(r"\b<word>\b", repl, t) for the words of set.
RewriteWord(t, set, repl) ==
  [i \in 1..Len(t) |-> IF t[i] \in set /\ Bounded(t, i) THEN repl ELSE t[i]]

\* The word rewrites of a table, one after the other.
RECURSIVE RewriteWords(_, _)
RewriteWords(t, table) ==
  IF table = <<>> THEN t
  ELSE IF Len(table) = 1
       THEN RewriteWord(t, table[1][1], table[1][2])
       ELSE Then(RewriteWords(t, SubSeq(table, 1, Len(table) \div 2)),
                 LAMBDA value :
                   RewriteWords(value, SubSeq(table, Len(table) \div 2 + 1,
                                              Len(table))))

\* re.sub(r"\bVol\.\b", "Vol", t): the dot goes when a word follows it.
RECURSIVE RewriteVolDot(_, _)
RewriteVolDot(t, i) ==
  IF i > Len(t) THEN <<>>
  ELSE IF /\ t[i] \in Spellings("Vol", "vol", "VOL")
          /\ (i = 1 \/ t[i - 1] # "_")
          /\ i + 2 <= Len(t)
          /\ t[i + 1] = "."
          /\ (IsWord(t[i + 2]) \/ t[i + 2] = "_")
       THEN <<"Vol">> \o RewriteVolDot(t, i + 2)
       ELSE <<t[i]>> \o RewriteVolDot(t, i + 1)

\* Variant of abbreviate_title_phrases that rewrites the bare words first.
abbreviate_bare_words_first(title) ==
  Then(RewriteWord(title, {"Edtion", "edtion"}, "Edition"), LAMBDA v1 :
  Then(RewriteWords(v1, SubSeq(WordRewrites, 1, 3)), LAMBDA v2 :
  Then(RewriteVolDot(v2, 1), LAMBDA v3 :
  Then(RewriteWords(v3, SubSeq(WordRewrites, 4, 5)), LAMBDA v4 :
  Then(RewriteTable(v4, NumberedRewrites), LAMBDA v5 :
  Then(RewriteTable(v5, OrdinalRewrites), LAMBDA v6 :
  Then(RewriteTable(v6, QualifierRewrites), LAMBDA v7 :
    Strip(SubRuns(v7, Whitespace, " "), Whitespace))))))))

\* abbreviate_title_phrases, lines 381-428.
abbreviate_title_phrases(title) ==
  Then(RewriteWord(title, {"Edtion", "edtion"}, "Edition"), LAMBDA v1 :
  Then(RewriteTable(v1, NumberedRewrites), LAMBDA v2 :
  Then(RewriteTable(v2, OrdinalRewrites), LAMBDA v3 :
  Then(RewriteTable(v3, QualifierRewrites), LAMBDA v4 :
  Then(RewriteWords(v4, SubSeq(WordRewrites, 1, 3)), LAMBDA v5 :
  Then(RewriteVolDot(v5, 1), LAMBDA v6 :
  Then(RewriteWords(v6, SubSeq(WordRewrites, 4, 5)), LAMBDA v7 :
    Strip(SubRuns(v7, Whitespace, " "), Whitespace))))))))

\* The idle values of the apply, plan and text variables.
ApplyIdle ==
  /\ fs = <<>>
  /\ fs0 = <<>>
  /\ rename_pairs = <<>>
  /\ idx = 0
  /\ temp_moves = <<>>
  /\ final_moves = <<>>
  /\ changed = 0
  /\ ret = <<-1, NoError>>
  /\ err = NoError
  /\ failsLeft = 0
  /\ staged = <<>>
  /\ log = <<>>

PlanIdle ==
  /\ desired = <<>>
  /\ file_idx = 0
  /\ reserved_targets = {}
  /\ plans = <<>>
  /\ parse_raises = {}
  /\ metas = <<>>
  /\ notes = <<>>

TextIdle ==
  /\ text = <<>>
  /\ token = <<>>
  /\ token_again = <<>>
  /\ verdict = NoError
  /\ dest = <<>>
  /\ dest_verdict = NoError
  /\ text_done = {}

\* The words of the titles handed to abbreviate_title_phrases, and what
\* stands between two words.
TitleWords ==
  {"Algo", "Third", "THIRD", "Tenth", "Revised", "Edition", "edition", "Ed"}

TitleSeparators == {<<" ">>, <<",", " ">>, <<"-">>}

\* The titles of exactly n words.
RECURSIVE TitlesOf(_, _, _)
TitlesOf(n, words, separators) ==
  IF n = 1 THEN {<<w>> : w \in words}
  ELSE {t \o sep \o <<w>> :
          t \in TitlesOf(n - 1, words, separators), sep \in separators, w \in words}

AbbrInit ==
  /\ title_in \in UNION {TitlesOf(n, TitleWords, TitleSeparators) : n \in 1..MaxTitle}
  /\ abbr = <<>>
  /\ abbr_done = FALSE
  /\ pc = "title"
  /\ ApplyIdle
  /\ PlanIdle
  /\ TextIdle
  /\ NameIdle
  /\ TuiIdle
  /\ MainIdle
  /\ CallIdle

\* abbr = abbreviate_title_phrases(title_in)
Abbreviate ==
  /\ pc = "title"
  /\ ~abbr_done
  /\ abbr' = abbreviate_title_phrases(title_in)
  /\ abbr_done' = TRUE
  /\ UNCHANGED <<fs, applyVars, planVars, tuiVars, mainVars, callVars, textVars, nameVars, title_in>>

AbbrNext == Abbreviate

AbbrSpec == AbbrInit /\ [][AbbrNext]_vars

\* str.lower() on the words of the model that have upper-case letters.
LowerPairs ==
  {<<"Code", "code">>, <<"Robert", "robert">>, <<"Martin", "martin">>,
   <<"Dune", "dune">>, <<"Edition", "edition">>,
   <<"B01ABCDEFG", "b01abcdefg">>, <<"B01abcdefg", "b01abcdefg">>}

LowerWord(w) ==
  IF \E q \in LowerPairs : q[1] = w
  THEN (CHOOSE q \in LowerPairs : q[1] = w)[2]
  ELSE w

\* normalize_title_for_compare, lines 464-467.
normalize_title_for_compare(t) ==
  LET v1 == [i \in 1..Len(t) |-> LowerWord(t[i])]
      v2 == SubRuns(v1, {"_", "-"}, " ")
  IN  Strip(SubRuns(v2, Whitespace, " "), Whitespace)

\* The words matching \d+e.
EditionTokens == {OrdinalRewrites[k][2] : k \in 1..Len(OrdinalRewrites)}

\* has_edition_marker, lines 471-477.
has_edition_marker(t) ==
  \E i \in 1..Len(t) :
    \/ t[i] \in EditionTokens /\ Bounded(t, i)
    \/ PhraseEnd(t, i, NumberedWords) # 0
    \/ \E k \in 1..3 : PhraseEnd(t, i, OrdinalRewrites[k][1]) # 0

\* title_word_count, lines 458-460.
title_word_count(t) == Cardinality({i \in 1..Len(t) : IsWord(t[i])})

\* fallback_title_from_filename, lines 776-778.
fallback_title_from_filename(path_stem) == main_title_only(clean_text(path_stem))

\* choose_best_title, lines 491-505: the choice between the two main
\* titles, from them and their normal forms.
ChooseTitle(meta_main, fallback_main, meta_norm, fallback_norm) ==
  IF /\ has_edition_marker(fallback_main)
     /\ ~has_edition_marker(meta_main)
     /\ StartsWith(fallback_norm, meta_norm)
  THEN fallback_main
  ELSE IF /\ title_word_count(meta_main) <= 2
          /\ title_word_count(fallback_main) >= 4
          /\ StartsWith(fallback_norm, meta_norm)
       THEN fallback_main
  ELSE meta_main

\* choose_best_title, lines 481-505.
choose_best_title(path_stem, meta_title) ==
  Then(fallback_title_from_filename(path_stem), LAMBDA fallback :
    IF looks_like_bad_title(meta_title) THEN fallback
    ELSE
  Then(main_title_only(meta_title), LAMBDA meta_main :
  Then(main_title_only(fallback), LAMBDA fallback_main :
  Then(normalize_title_for_compare(meta_main), LAMBDA meta_norm :
  Then(normalize_title_for_compare(fallback_main), LAMBDA fallback_norm :
    ChooseTitle(meta_main, fallback_main, meta_norm, fallback_norm))))))

\* The first of three years that is not "".
FirstYear(y1, y2, y3) == IF y1 # "" THEN y1 ELSE IF y2 # "" THEN y2 ELSE y3

\* build_new_name, lines 783-785: the author of the metadata, else the one
\* inferred from the file name.
AuthorRaw(a1, path_stem) ==
  IF a1 # NoText THEN a1 ELSE author_from_filename(path_stem)

\* build_new_name, lines 786 and 799-813, from author_raw, year and title.
NameFrom(path_suffix, author_raw, year, title) ==
  [stem |-> JoinName(title,
                     IF author_raw # NoText
                     THEN normalize_file_token(author_raw) ELSE NoText,
                     IF year = "" THEN <<>> ELSE <<year>>, 0, <<>>),
   suffix |-> Lower(path_suffix),
   author |-> author_raw,
   year |-> year]

\* build_new_name, lines 782-813: the stem and the suffix of the proposed
\* name, and the author and the year of its rationale.
build_new_name(path_stem, path_suffix, m) ==
  Then(AuthorRaw(split_first_author(m.author), path_stem), LAMBDA author_raw :
  Then(FirstYear(extract_year(m.date), extract_year(m.modified),
                 extract_year(path_stem)), LAMBDA year :
  Then(choose_best_title(path_stem, m.title), LAMBDA title_raw :
  Then(strip_author_from_title(title_raw, author_raw, year), LAMBDA title_dedup :
  Then(abbreviate_title_phrases(title_dedup), LAMBDA title_abbr :
  Then(normalize_file_token(title_abbr), LAMBDA title :
    NameFrom(path_suffix, author_raw, year, title)))))))

\* The words of the file names handed to build_new_name, and what stands
\* between two words.
NameWords == {"Code", "Robert", "2001", "2008"}

NameSeparators == {<<"_">>, <<"-">>, <<" ">>}

\* BookMeta with the given title, author and date (modified is absent).
BookMeta(t, a, d) == [title |-> t, author |-> a, date |-> d, modified |-> NoText]

\* The metadata of the model: all absent; an opaque store identifier as
\* title; a usable title; author and date without a title.
NameMetas ==
  {BookMeta(NoText, NoText, NoText),
   BookMeta(<<"B01ABCDEFG">>, NoText, NoText),
   BookMeta(<<"Code">>, NoText, NoText),
   BookMeta(NoText, <<"Martin", ",", " ", "Robert">>, <<"2008">>)}

NameInit ==
  /\ file_stem \in UNION {TitlesOf(n, NameWords, NameSeparators) : n \in 1..MaxWords}
  /\ file_suffix \in {".pdf", ".PDF"}
  /\ file_meta \in NameMetas
  /\ proposal = <<>>
  /\ proposal_again = <<>>
  /\ name_done = 0
  /\ pc = "name"
  /\ ApplyIdle
  /\ PlanIdle
  /\ TextIdle
  /\ AbbrIdle
  /\ TuiIdle
  /\ MainIdle
  /\ CallIdle

\* proposal = build_new_name(path, meta)
BuildName ==
  /\ pc = "name"
  /\ name_done = 0
  /\ proposal' = build_new_name(file_stem, file_suffix, file_meta)
  /\ name_done' = 1
  /\ UNCHANGED <<fs, applyVars, planVars, tuiVars, mainVars, callVars, textVars, abbrVars, file_stem,
                 file_suffix, file_meta, proposal_again>>

\* build_new_name for the file renamed to the proposal, same metadata.
BuildNameAgain ==
  /\ pc = "name"
  /\ name_done = 1
  /\ proposal_again' = build_new_name(proposal.stem, proposal.suffix, file_meta)
  /\ name_done' = 2
  /\ UNCHANGED <<fs, applyVars, planVars, tuiVars, mainVars, callVars, textVars, abbrVars, file_stem,
                 file_suffix, file_meta, proposal>>

NameNext ==
  \/ BuildName
  \/ BuildNameAgain

NameSpec == NameInit /\ [][NameNext]_vars

\* ------------------------------------------------------- the preview TUI
\* build_plans_for_directory as a function of the directory: the loop of
\* lines 917-933 from file k on, with the names reserved so far.
RECURSIVE PlansFrom(_, _, _, _)
PlansFrom(dir, k, reserved, acc) ==
  IF k > Len(CollectFiles(dir)) THEN acc
  ELSE LET file_path == CollectFiles(dir)[k]
           new_name == ProposalIn(dir, file_path)
           final_name == IF new_name = file_path THEN new_name
                         ELSE unique_name_with_reserved(dir, new_name, reserved)
       IN  PlansFrom(dir, k + 1, reserved \cup {CaseFold(final_name)},
                     Append(acc, <<file_path, final_name, Reason(new_name)>>))

build_plans_for_directory(dir) == PlansFrom(dir, 1, {}, <<>>)

\* [item.dst for item in plans]
Targets(ps) == [i \in 1..Len(ps) |-> ps[i][2]]

\* The folders of the TUI model and a symbolic link to one of them.
TuiFolders == {"/a", "/b", "/e"}
TuiLink == "/link"
TuiPaths == TuiFolders \cup {TuiLink}

\* The entries of each folder: "/b" holds a file whose suffix is
\* lower-cased by the proposal, "/e" holds no e-book.
FolderNames(p) ==
  IF p = "/a" THEN {"A.pdf", "a.pdf"}
  ELSE IF p = "/b" THEN {"B.EPUB", "a-2.pdf", "n.txt"}
  ELSE {"n.txt"}

\* Path.resolve(): the link is replaced by the folder it points to.
Resolve(p) == IF p = TuiLink THEN "/b" ELSE p

\* path.exists() and path.is_dir(), for a resolved path.
IsDir(p) == p \in DOMAIN tree

\* The values typed into #edit_input: the characters typed and the string
\* value.strip() makes of them.
EditInputs ==
  { << <<"z", ".", "p", "d", "f">>, "z.pdf" >>,
    << <<" ", "B", ".", "E", "P", "U", "B">>, "B.EPUB" >>,
    << <<"a", "-", "2", ".", "p", "d", "f">>, "a-2.pdf" >>,
    << <<" ", "\t">>, "" >>,
    << <<"a", "/", "b">>, "a/b" >> }

\* The keys on_key is called with.
Keys == {"enter", "x"}

\* The handler that runs, with the overlay state and the directory it
\* found.
Event(handler) ==
  [handler |-> handler, hidden |-> folder_hidden, dir |-> current_dir]

\* The "edit_save" handler, with the value it read from #edit_input.
EditEvent(input) ==
  [handler |-> "edit_save", hidden |-> folder_hidden, dir |-> current_dir,
   value |-> input]

\* PreviewApp.__init__ (lines 1106-1115) and compose: every overlay is
\* hidden.  The files are dummy files, no parser reads them.
TuiInit ==
  /\ desired = <<>>
  /\ parse_raises = PlanNames
  /\ tree = [p \in TuiFolders |-> [n \in FolderNames(p) |-> n]]
  /\ current_dir \in {"/a", TuiLink}
  /\ app_plans = build_plans_for_directory(tree[Resolve(current_dir)])
  /\ working_targets = Targets(app_plans)
  /\ editing_row = 0
  /\ folder_candidate = NoPath
  /\ folder_hidden = TRUE
  /\ edit_hidden = TRUE
  /\ message_hidden = TRUE
  /\ last_event = Event("on_mount")
  /\ apply_disabled = FALSE
  /\ MainIdle
  /\ CallIdle
  /\ pc = "tui"
  /\ ApplyIdle
  /\ file_idx = 0
  /\ reserved_targets = {}
  /\ plans = <<>>
  /\ metas = <<>>
  /\ notes = <<>>
  /\ TextIdle
  /\ AbbrIdle
  /\ NameIdle

\* apply_folder_change, lines 1370-1382.
apply_folder_change(path) ==
  IF ~IsDir(path)
  THEN /\ message_hidden' = FALSE
       /\ UNCHANGED <<current_dir, app_plans, working_targets, folder_hidden,
                      folder_candidate>>
  ELSE LET new_plans == build_plans_for_directory(tree[path])
       IN  /\ current_dir' = path
           /\ app_plans' = new_plans
           /\ working_targets' = Targets(new_plans)
           /\ folder_hidden' = TRUE
           /\ folder_candidate' = NoPath
           /\ message_hidden' = IF new_plans = <<>> THEN FALSE
                                ELSE message_hidden

\* confirm_folder_selection, lines 1412-1414.
confirm_folder_selection ==
  LET selected == IF folder_candidate # NoPath THEN folder_candidate
                  ELSE current_dir
  IN  apply_folder_change(Resolve(selected))

\* action_choose_folder and the "folder" button: show_folder_overlay,
\* lines 1241-1245.
action_choose_folder ==
  /\ pc = "tui"
  /\ folder_hidden' = FALSE
  /\ folder_candidate' = current_dir
  /\ last_event' = Event("choose_folder")
  /\ UNCHANGED <<fs, applyVars, planVars, textVars, abbrVars, nameVars, mainVars, callVars, apply_disabled, tree,
                 current_dir, app_plans, working_targets, editing_row,
                 edit_hidden, message_hidden>>

\* on_tree_node_selected, lines 1520-1528, for a node whose data is a path.
on_tree_node_selected ==
  /\ pc = "tui"
  /\ \E data \in TuiPaths :
       folder_candidate' = IF folder_hidden THEN folder_candidate
                           ELSE Resolve(data)
  /\ last_event' = Event("tree_node_selected")
  /\ UNCHANGED <<fs, applyVars, planVars, textVars, abbrVars, nameVars, mainVars, callVars, apply_disabled, tree,
                 current_dir, app_plans, working_targets, editing_row,
                 folder_hidden, edit_hidden, message_hidden>>

\* Variant of on_key that confirms the selection whether or not the folder
\* overlay is shown.
on_key_unguarded ==
  /\ pc = "tui"
  /\ \E key \in Keys :
       /\ last_event' = Event(IF key = "enter" THEN "key_enter" ELSE "key_other")
       /\ IF key # "enter"
          THEN UNCHANGED <<current_dir, app_plans, working_targets,
                           folder_hidden, folder_candidate, message_hidden>>
          ELSE confirm_folder_selection
  /\ UNCHANGED <<fs, applyVars, planVars, textVars, abbrVars, nameVars, mainVars, callVars, apply_disabled, tree,
                 editing_row, edit_hidden>>

\* on_key, lines 1530-1536.
on_key ==
  /\ pc = "tui"
  /\ \E key \in Keys :
       /\ last_event' = Event(IF key = "enter" THEN "key_enter" ELSE "key_other")
       /\ IF key # "enter" \/ folder_hidden
          THEN UNCHANGED <<current_dir, app_plans, working_targets,
                           folder_hidden, folder_candidate, message_hidden>>
          ELSE confirm_folder_selection
  /\ UNCHANGED <<fs, applyVars, planVars, textVars, abbrVars, nameVars, mainVars, callVars, apply_disabled, tree,
                 editing_row, edit_hidden>>

\* on_button_pressed, "folder_open" (lines 1488-1490); the button is
\* displayed while the folder overlay is.
press_folder_open ==
  /\ pc = "tui"
  /\ ~folder_hidden
  /\ last_event' = Event("folder_open")
  /\ confirm_folder_selection
  /\ UNCHANGED <<fs, applyVars, planVars, textVars, abbrVars, nameVars, mainVars, callVars, apply_disabled, tree,
                 editing_row, edit_hidden>>

\* on_button_pressed, "folder_cancel" (lines 1482-1484): hide_folder_overlay.
press_folder_cancel ==
  /\ pc = "tui"
  /\ ~folder_hidden
  /\ last_event' = Event("folder_cancel")
  /\ folder_hidden' = TRUE
  /\ folder_candidate' = NoPath
  /\ UNCHANGED <<fs, applyVars, planVars, textVars, abbrVars, nameVars, mainVars, callVars, apply_disabled, tree,
                 current_dir, app_plans, working_targets, editing_row,
                 edit_hidden, message_hidden>>

\* on_button_pressed, "message_ok" (lines 1476-1478): hide_message.
press_message_ok ==
  /\ pc = "tui"
  /\ ~message_hidden
  /\ last_event' = Event("message_ok")
  /\ message_hidden' = TRUE
  /\ UNCHANGED <<fs, applyVars, planVars, textVars, abbrVars, nameVars, mainVars, callVars, apply_disabled, tree,
                 current_dir, app_plans, working_targets, editing_row,
                 folder_candidate, folder_hidden, edit_hidden>>

\* action_edit_target and the "edit_target" button: show_edit_overlay,
\* lines 1223-1236.  The table has one row per plan; the cursor is on any.
action_edit_target ==
  /\ pc = "tui"
  /\ last_event' = Event("edit_target")
  /\ IF Len(app_plans) = 0
     THEN /\ message_hidden' = FALSE
          /\ UNCHANGED <<editing_row, edit_hidden>>
     ELSE /\ \E cursor_row \in 0..(Len(app_plans) - 1) :
               editing_row' = cursor_row
          /\ edit_hidden' = FALSE
          /\ UNCHANGED message_hidden
  /\ UNCHANGED <<fs, applyVars, planVars, textVars, abbrVars, nameVars, mainVars, callVars, apply_disabled, tree,
                 current_dir, app_plans, working_targets, folder_candidate,
                 folder_hidden>>

\* Variant of apply_edit without the loop of lines 1358-1365: a value equal
\* to another row's target is stored like any other.
press_edit_save_unchecked ==
  /\ pc = "tui"
  /\ ~edit_hidden
  /\ \E input \in EditInputs :
       /\ last_event' = EditEvent(input)
       /\ LET new_value == input[2]
              err_code == validate_target_filename(Strip(input[1], Whitespace))
          IN  IF err_code # NoCode
              THEN /\ message_hidden' = FALSE
                   /\ UNCHANGED <<working_targets, edit_hidden, pc>>
              ELSE IF editing_row >= Len(working_targets)
              THEN /\ pc' = "crashed"
                   /\ UNCHANGED <<working_targets, edit_hidden, message_hidden>>
              ELSE /\ working_targets' =
                        [working_targets EXCEPT ![editing_row + 1] = new_value]
                   /\ edit_hidden' = TRUE
                   /\ UNCHANGED <<message_hidden, pc>>
  /\ UNCHANGED <<fs, fs0, rename_pairs, idx, temp_moves, final_moves, changed,
                 ret, err, failsLeft, staged, log, planVars, textVars,
                 abbrVars, nameVars, mainVars, callVars, apply_disabled, tree, current_dir, app_plans, editing_row,
                 folder_candidate, folder_hidden>>

\* on_button_pressed, "edit_save" (lines 1485-1487): apply_edit, lines
\* 1349-1368.  Rows are numbered from 0, sequences from 1.  An editing_row
\* past the last row raises IndexError at line 1366.
press_edit_save ==
  /\ pc = "tui"
  /\ ~edit_hidden
  /\ \E input \in EditInputs :
       /\ last_event' = EditEvent(input)
       /\ LET new_value == input[2]
              err_code == validate_target_filename(Strip(input[1], Whitespace))
          IN  IF err_code # NoCode
              THEN /\ message_hidden' = FALSE
                   /\ UNCHANGED <<working_targets, edit_hidden, pc>>
              ELSE IF \E i \in 1..Len(working_targets) :
                        /\ i - 1 # editing_row
                        /\ CaseFold(working_targets[i]) = CaseFold(new_value)
              THEN /\ message_hidden' = FALSE
                   /\ UNCHANGED <<working_targets, edit_hidden, pc>>
              ELSE IF editing_row >= Len(working_targets)
              THEN /\ pc' = "crashed"
                   /\ UNCHANGED <<working_targets, edit_hidden, message_hidden>>
              ELSE /\ working_targets' =
                        [working_targets EXCEPT ![editing_row + 1] = new_value]
                   /\ edit_hidden' = TRUE
                   /\ UNCHANGED <<message_hidden, pc>>
  /\ UNCHANGED <<fs, fs0, rename_pairs, idx, temp_moves, final_moves, changed,
                 ret, err, failsLeft, staged, log, planVars, textVars,
                 abbrVars, nameVars, mainVars, callVars, apply_disabled, tree, current_dir, app_plans, editing_row,
                 folder_candidate, folder_hidden>>

\* on_button_pressed, "edit_cancel" (lines 1479-1481): hide_edit_overlay.
press_edit_cancel ==
  /\ pc = "tui"
  /\ ~edit_hidden
  /\ last_event' = Event("edit_cancel")
  /\ edit_hidden' = TRUE
  /\ UNCHANGED <<fs, applyVars, planVars, textVars, abbrVars, nameVars, mainVars, callVars, apply_disabled, tree,
                 current_dir, app_plans, working_targets, editing_row,
                 folder_candidate, folder_hidden, message_hidden>>

\* validate_target_filename on a working target.  A target is the
\* destination of a plan, made of letters, digits, "-" and ".", or a value
\* typed into #edit_input.
TargetError(name) ==
  IF \E input \in EditInputs : input[2] = name
  THEN validate_target_filename(
         (CHOOSE input \in EditInputs : input[2] = name)[1])
  ELSE NoCode

\* collect_pairs, lines 1420-1433: the loop from row k on.  The result is
\* <<pairs, err_msg>>.
RECURSIVE CollectFrom(_, _, _)
CollectFrom(k, seen, pairs) ==
  IF k > Len(app_plans) THEN <<pairs, NoError>>
  ELSE LET dst_name == working_targets[k]
           key == CaseFold(dst_name)
       IN  IF TargetError(dst_name) # NoCode THEN <<<<>>, "error_row_message">>
           ELSE IF key \in seen THEN <<<<>>, "error_row_duplicate">>
           ELSE CollectFrom(k + 1, seen \cup {key},
                            Append(pairs, <<app_plans[k][1], dst_name>>))

collect_pairs == CollectFrom(1, {}, <<>>)

\* The pairs apply_rename_pairs renames: lines 958-960 skip the others.
Moved(ps) == {k \in 1..Len(ps) : Src(ps[k]) # Dst(ps[k])}

\* The directory after apply_rename_pairs has staged and committed every
\* pair of ps (lines 957-970): each source is gone, each destination holds
\* the content its source held.
RenameAll(dir, ps) ==
  LET srcs == {Src(ps[k]) : k \in Moved(ps)}
      dsts == {Dst(ps[k]) : k \in Moved(ps)}
  IN  [n \in (DOMAIN dir \ srcs) \cup dsts |->
         IF n \in dsts
         THEN dir[Src(ps[CHOOSE k \in Moved(ps) : Dst(ps[k]) = n])]
         ELSE dir[n]]

\* The directory after the first c of the pairs to rename were committed,
\* the next commit raised and the rollback of lines 972-979 renamed every
\* staged file that is left back to its source name.
RolledBack(dir, ps, c) ==
  LET done == {k \in Moved(ps) : Cardinality({m \in Moved(ps) : m < k}) < c}
      back == Moved(ps) \ done
      srcs == {Src(ps[k]) : k \in Moved(ps)}
      dsts == {Dst(ps[k]) : k \in done}
      origs == {Src(ps[k]) : k \in back}
  IN  [n \in (DOMAIN dir \ srcs) \cup dsts \cup origs |->
         IF n \in origs THEN dir[n]
         ELSE IF n \in dsts
         THEN dir[Src(ps[CHOOSE k \in done : Dst(ps[k]) = n])]
         ELSE dir[n]]

\* apply_rename_pairs as one call, for a batch whose sources are distinct:
\* the results <<changed, error, directory>> it can return.  A rename
\* raises when its source is missing or when the system refuses it, while
\* staging ("stage") or while committing ("commit"); the renames of the
\* rollback succeed.
ApplyOutcomes(ps, dir) ==
  IF Len(ps) = 0 THEN {<<0, NoError, dir>>}
  ELSE IF Validate(ps, dir) # NoError THEN {<<0, Validate(ps, dir), dir>>}
  ELSE IF Moved(ps) = {} THEN {<<0, NoError, dir>>}
  ELSE IF \E m \in Moved(ps) : ~Exists(dir, Src(ps[m]))
  THEN {<<0, "stage", dir>>}
  ELSE {<<0, "stage", dir>>}
       \cup {<<0, "commit", RolledBack(dir, ps, c)>> :
               c \in 0..(Cardinality(Moved(ps)) - 1)}
       \cup {<<Cardinality(Moved(ps)), NoError, RenameAll(dir, ps)>>}

\* The entries of the folder the plans were built for; none when the folder
\* is gone.
CurrentEntries ==
  IF IsDir(Resolve(current_dir)) THEN tree[Resolve(current_dir)] ELSE <<>>

\* action_apply_rename and the "apply" button: do_apply, lines 1435-1445.
\* The key binding calls it whether or not the button is disabled.
do_apply ==
  /\ pc = "tui"
  /\ Len(calls) < MaxApply
  /\ last_event' = Event("apply")
  /\ message_hidden' = FALSE
  /\ LET pairs == collect_pairs[1]
         err_msg == collect_pairs[2]
     IN  IF err_msg # NoError
         THEN UNCHANGED <<tree, calls, apply_disabled>>
         ELSE \E result \in ApplyOutcomes(pairs, CurrentEntries) :
                /\ calls' = Append(calls,
                                   [pairs |-> pairs,
                                    plans |-> app_plans,
                                    dir |-> current_dir,
                                    before |-> CurrentEntries,
                                    ret |-> <<result[1], result[2]>>,
                                    after |-> result[3]])
                /\ tree' = IF IsDir(Resolve(current_dir))
                           THEN [tree EXCEPT ![Resolve(current_dir)] = result[3]]
                           ELSE tree
                /\ apply_disabled' = IF result[2] = NoError THEN TRUE
                                     ELSE apply_disabled
  /\ UNCHANGED <<fs, applyVars, planVars, textVars, abbrVars, nameVars, args,
                 callVars, current_dir, app_plans, working_targets,
                 editing_row, folder_candidate, folder_hidden, edit_hidden>>

\* action_switch_language and the "language" button: do_switch_language,
\* lines 1468-1473.  The language is no part of the state of the model; the
\* table is drawn again from the plans and the working targets.
action_switch_language ==
  /\ pc = "tui"
  /\ last_event' = Event("switch_language")
  /\ UNCHANGED <<fs, applyVars, planVars, textVars, abbrVars, nameVars,
                 mainVars, callVars, apply_disabled, tree, current_dir,
                 app_plans, working_targets, editing_row, folder_candidate,
                 folder_hidden, edit_hidden, message_hidden>>

\* Outside the program: a folder is removed while the TUI runs.
FolderRemoved ==
  /\ pc = "tui"
  /\ \E p \in DOMAIN tree : tree' = [q \in DOMAIN tree \ {p} |-> tree[q]]
  /\ UNCHANGED <<fs, applyVars, planVars, textVars, abbrVars, nameVars, mainVars, callVars,
                 apply_disabled, current_dir, app_plans, working_targets, editing_row,
                 folder_candidate, folder_hidden, edit_hidden, message_hidden,
                 last_event>>

TuiNext ==
  \/ action_choose_folder
  \/ on_tree_node_selected
  \/ on_key
  \/ press_folder_open
  \/ press_folder_cancel
  \/ press_message_ok
  \/ action_edit_target
  \/ press_edit_save
  \/ press_edit_cancel
  \/ action_switch_language
  \/ FolderRemoved

TuiSpec == TuiInit /\ [][TuiNext]_vars

\* The TUI with the folder left as it is: targets are edited and applied.
TuiApplyNext ==
  \/ action_edit_target
  \/ press_edit_save
  \/ press_edit_cancel
  \/ press_message_ok
  \/ do_apply

TuiApplySpec == TuiInit /\ [][TuiApplyNext]_vars

\* -------------------------------------------------- the command-line run
\* The directories main() is pointed at: at most MaxPairs candidates, so
\* that the batch it hands to apply_rename_pairs has at most MaxPairs pairs.
MainDirs ==
  {d \in {[n \in E |-> n] : E \in SUBSET PlanNames} :
     Len(CollectFiles(d)) \in 0..MaxPairs}

\* args.dir: the target directory, or a path that is no directory.
MainTargets == {".", "missing"}

\* [(item.src, item.dst) for item in plans]
PairsOf(ps) == [i \in 1..Len(ps) |-> <<ps[i][1], ps[i][2]>>]

\* main() with --ui cli, after parse_args (lines 2001-2024): the command
\* line, the directory and the metadata of its candidates.
MainInit ==
  /\ args \in [apply : BOOLEAN, dir : MainTargets]
  /\ fs \in MainDirs
  /\ desired \in [{CollectFiles(fs)[k] : k \in 1..Len(CollectFiles(fs))}
                    -> DesiredNames]
  /\ \A f \in DOMAIN desired : PathSuffix(desired[f]) = Lower(PathSuffix(f))
  /\ parse_raises \in SUBSET (DOMAIN desired)
  /\ calls = <<>>
  /\ pc = "main"
  /\ fs0 = fs
  /\ rename_pairs = <<>>
  /\ idx = 0
  /\ temp_moves = <<>>
  /\ final_moves = <<>>
  /\ changed = 0
  /\ ret = <<-1, NoError>>
  /\ err = NoError
  /\ failsLeft = 0
  /\ staged = <<>>
  /\ log = <<>>
  /\ file_idx = 0
  /\ reserved_targets = {}
  /\ plans = <<>>
  /\ metas = <<>>
  /\ notes = <<>>
  /\ TextIdle
  /\ AbbrIdle
  /\ NameIdle
  /\ TuiIdle
  /\ CallIdle

\* main, lines 2048-2053: an invalid directory ends the run with status 1,
\* a valid one is planned.
main_target ==
  /\ pc = "main"
  /\ pc' = IF args.dir = "missing" THEN "return 1" ELSE "plan"
  /\ UNCHANGED <<fs, fs0, rename_pairs, idx, temp_moves, final_moves, changed,
                 ret, err, failsLeft, staged, log, planVars, textVars,
                 abbrVars, nameVars, tuiVars, mainVars, callVars>>

\* main, lines 2054-2058: no plan ends the run, otherwise render_preview
\* (render_cli_preview for --ui cli) prints the plans.
main_preview ==
  /\ pc = "planned"
  /\ IF plans = <<>>
     THEN /\ pc' = "return 0"
          /\ UNCHANGED notes
     ELSE /\ pc' = "previewed"
          /\ notes' = [i \in 1..Len(plans) |-> LengthNote(plans[i][3].name_len)]
  /\ UNCHANGED <<fs, fs0, rename_pairs, idx, temp_moves, final_moves, changed,
                 ret, err, failsLeft, staged, log, desired, file_idx,
                 reserved_targets, plans, parse_raises, metas, textVars,
                 abbrVars, nameVars, tuiVars, mainVars, callVars>>

\* Variant of main_apply that applies the plans whether or not --apply was
\* given.
main_apply_always ==
  /\ pc = "previewed"
  /\ rename_pairs' = PairsOf(plans)
  /\ calls' = Append(calls, PairsOf(plans))
  /\ fs0' = fs
  /\ failsLeft' = MaxFail
  /\ pc' = "validate"
  /\ UNCHANGED <<fs, idx, temp_moves, final_moves, changed, ret, err, staged,
                 log, planVars, textVars, abbrVars, nameVars, tuiVars, args, callVars>>

\* main, lines 2060-2065: without --apply the run ends after the preview;
\* with it apply_rename_pairs is called with the planned pairs.
main_apply ==
  /\ pc = "previewed"
  /\ IF ~args.apply
     THEN /\ pc' = "return 0"
          /\ UNCHANGED <<rename_pairs, calls, fs0, failsLeft>>
     ELSE /\ rename_pairs' = PairsOf(plans)
          /\ calls' = Append(calls, PairsOf(plans))
          /\ fs0' = fs
          /\ failsLeft' = MaxFail
          /\ pc' = "validate"
  /\ UNCHANGED <<fs, idx, temp_moves, final_moves, changed, ret, err, staged,
                 log, planVars, textVars, abbrVars, nameVars, tuiVars, args, callVars>>

\* main, lines 2066-2070: the status after apply_rename_pairs returned.
main_return ==
  /\ pc = "done"
  /\ pc' = IF ret[2] # NoError THEN "return 1" ELSE "return 0"
  /\ UNCHANGED <<fs, fs0, rename_pairs, idx, temp_moves, final_moves, changed,
                 ret, err, failsLeft, staged, log, planVars, textVars,
                 abbrVars, nameVars, tuiVars, mainVars, callVars>>

\* The program is run again on the directory after a successful apply:
\* build_plans_for_directory (line 2053) with the metadata the files hold.
main_again ==
  /\ pc = "return 0"
  /\ calls # <<>>
  /\ ret[2] = NoError
  /\ plans' = build_plans_for_directory(fs)
  /\ pc' = "planned again"
  /\ UNCHANGED <<fs, fs0, rename_pairs, idx, temp_moves, final_moves, changed,
                 ret, err, failsLeft, staged, log, desired, file_idx,
                 reserved_targets, parse_raises, metas, notes, textVars,
                 abbrVars, nameVars, tuiVars, mainVars, callVars>>

MainNext ==
  \/ main_target
  \/ PlanKeep
  \/ PlanRename
  \/ PlanReturn
  \/ main_preview
  \/ main_apply
  \/ ValidateBatch
  \/ StageSkip
  \/ StageOk
  \/ StageFail
  \/ StageDone
  \/ CommitOk
  \/ CommitFail
  \/ CommitDone
  \/ RollbackOk
  \/ RollbackSkip
  \/ RollbackFail
  \/ RollbackDone
  \/ main_return
  \/ main_again

MainSpec == MainInit /\ [][MainNext]_vars

\* ------------------------------------------- the functions on their own
\* The author fields handed to split_first_author: names, a degree, joined
\* by the separators of the pattern of line 514, with or without a trailing
\* "M.D.".
AuthorWords == {"Martin", "Robert", "PhD"}

AuthorSeparators ==
  {<<" ">>, <<",", " ">>, <<";", " ">>, <<" ", "and", " ">>, <<" ", "&", " ">>}

AuthorEndings == {<<>>, <<" ", "M", ".", "D", ".">>}

AuthorTexts ==
  {t \o e : t \in UNION {TitlesOf(n, AuthorWords, AuthorSeparators) :
                           n \in 1..MaxTitle},
            e \in AuthorEndings}

\* What every other variable is while one function is called on its own.
CallOnly ==
  /\ call_value = <<>>
  /\ call_done = FALSE
  /\ ApplyIdle
  /\ PlanIdle
  /\ TextIdle
  /\ AbbrIdle
  /\ NameIdle
  /\ TuiIdle
  /\ MainIdle

AuthorInit ==
  /\ call_args \in AuthorTexts
  /\ pc = "split_first_author"
  /\ CallOnly

\* call_value = split_first_author(call_args)
SplitFirstAuthor ==
  /\ pc = "split_first_author"
  /\ ~call_done
  /\ call_value' = split_first_author(call_args)
  /\ call_done' = TRUE
  /\ UNCHANGED <<fs, applyVars, planVars, textVars, abbrVars, nameVars,
                 tuiVars, mainVars, call_args>>

AuthorNext == SplitFirstAuthor

AuthorSpec == AuthorInit /\ [][AuthorNext]_vars

\* The titles handed to main_title_only: words and an Nth Edition marker,
\* joined by blanks and by the separators of line 434.
TitleUnits == {<<"Code">>, <<"Dune">>, <<"3rd", " ", "Edition">>}

TitleCuts == << <<" ", "-", "-", " ">>, <<" ", "-", " ">>, <<":", " ">> >>

TitleJoins == {<<" ">>} \cup {TitleCuts[k] : k \in 1..Len(TitleCuts)}

\* The texts of exactly n units.
RECURSIVE UnitsOf(_, _, _)
UnitsOf(n, units, joins) ==
  IF n = 1 THEN units
  ELSE {t \o j \o u : t \in UnitsOf(n - 1, units, joins), j \in joins, u \in units}

MainTitleInit ==
  /\ call_args \in UNION {UnitsOf(n, TitleUnits, TitleJoins) : n \in 1..MaxTitle}
  /\ pc = "main_title_only"
  /\ CallOnly

\* call_value = main_title_only(call_args)
MainTitleOnly ==
  /\ pc = "main_title_only"
  /\ ~call_done
  /\ call_value' = main_title_only(call_args)
  /\ call_done' = TRUE
  /\ UNCHANGED <<fs, applyVars, planVars, textVars, abbrVars, nameVars,
                 tuiVars, mainVars, call_args>>

MainTitleNext == MainTitleOnly

MainTitleSpec == MainTitleInit /\ [][MainTitleNext]_vars

\* The file stems and metadata titles handed to choose_best_title: words,
\* an edition marker and a four-word phrase; the titles also absent, short,
\* padded with blanks, and store identifiers in both letter cases.
StemUnits ==
  {<<"Code">>, <<"Dune">>, <<"3rd", " ", "Edition">>,
   <<"Code", " ", "of", " ", "Robert", " ", "Martin">>}

ChooseStems ==
  UNION {UnitsOf(n, StemUnits, {<<" ">>, <<" ", "-", " ">>}) : n \in 1..MaxUnits}

MetaTitles ==
  {NoText, <<"ab">>, <<" ", "ab", " ">>, <<"B01ABCDEFG">>, <<"B01abcdefg">>,
   <<"B01ABCDEFG", " ", "(", "Code", ")">>}
  \cup UNION {UnitsOf(n, TitleUnits, {<<" ">>, <<":", " ">>}) : n \in 1..MaxUnits}

ChooseInit ==
  /\ call_args \in ChooseStems \X MetaTitles
  /\ pc = "choose_best_title"
  /\ CallOnly

\* call_value = choose_best_title(path, meta_title)
ChooseBestTitle ==
  /\ pc = "choose_best_title"
  /\ ~call_done
  /\ call_value' = choose_best_title(call_args[1], call_args[2])
  /\ call_done' = TRUE
  /\ UNCHANGED <<fs, applyVars, planVars, textVars, abbrVars, nameVars,
                 tuiVars, mainVars, call_args>>

ChooseNext == ChooseBestTitle

ChooseSpec == ChooseInit /\ [][ChooseNext]_vars

\* The titles handed to strip_author_from_title: a head (possibly empty),
\* then the author, its words joined by a blank, "_" or "-", then possibly
\* the year.
StripHeads == {<<>>, <<"Code">>, <<"Dune", " ", "Code">>}

TailSeparators == {<<" ", "-", " ">>, <<"-">>, <<" ", "-">>}

AuthorJoins == {" ", "_", "-"}

StripAuthors == {<<"Martin">>, <<"Robert", "Martin">>}

StripYears == {"", "2008"}

\* The words of an author joined by j.
RECURSIVE Spelled(_, _)
Spelled(words, j) ==
  IF Len(words) = 1 THEN words
  ELSE <<Head(words), j>> \o Spelled(Tail(words), j)

\* The year tails a title can end with, for the year of the metadata.
YearTails(year) ==
  IF year = "" THEN {<<>>} ELSE {<<>>, <<" ", year>>, <<"-", year>>}

StripInit ==
  /\ \E head \in StripHeads, sep \in TailSeparators, j \in AuthorJoins,
        words \in StripAuthors, year \in StripYears :
        \E y \in YearTails(year) :
          call_args = <<head \o sep \o Spelled(words, j) \o y,
                        Spelled(words, " "), year>>
  /\ pc = "strip_author_from_title"
  /\ CallOnly

\* call_value = strip_author_from_title(title, author_text, year)
StripAuthorFromTitle ==
  /\ pc = "strip_author_from_title"
  /\ ~call_done
  /\ call_value' =
       strip_author_from_title(call_args[1], call_args[2], call_args[3])
  /\ call_done' = TRUE
  /\ UNCHANGED <<fs, applyVars, planVars, textVars, abbrVars, nameVars,
                 tuiVars, mainVars, call_args>>

StripNext == StripAuthorFromTitle

StripSpec == StripInit /\ [][StripNext]_vars

\* ================================================================ claims
Done == pc = "done"

NPairs == Len(rename_pairs)

PairSrc(k) == Src(rename_pairs[k + 1])
PairDst(k) == Dst(rename_pairs[k + 1])

\* Pair indices (0-based, as enumerate) whose destination differs from the
\* source's name.
ChangedIdx == {k \in 0..(NPairs - 1) : PairSrc(k) # PairDst(k)}

DistinctSources ==
  \A i, j \in 0..(NPairs - 1) : i # j => PairSrc(i) # PairSrc(j)

RollbackFailed == \E p \in 1..Len(log) : log[p].op = "rollback_failed"

NoCommitInLog == \A p \in 1..Len(log) : log[p].op # "commit"

Contents(dir) == {dir[n] : n \in DOMAIN dir}

\* The content the source of pair k had at the call is stored under the
\* pair's destination name and under no other name.
AtDestination(k) ==
  Exists(fs0, PairSrc(k)) =>
    /\ Exists(fs, PairDst(k))
    /\ fs[PairDst(k)] = fs0[PairSrc(k)]
    /\ \A n \in DOMAIN fs : fs[n] = fs0[PairSrc(k)] => n = PairDst(k)

\* The source of pair k holds, under its original name, what it held at the call.
AtSource(k) ==
  Exists(fs0, PairSrc(k)) =>
    Exists(fs, PairSrc(k)) /\ fs[PairSrc(k)] = fs0[PairSrc(k)]

\* C1: when a temp-to-final rename fails in phase two, at any position, and
\* every rollback rename succeeds, every file of the batch is back under its
\* original source name when apply returns the error.
C1_CommitFailureRestoresAll ==
  (Done /\ err = "commit" /\ ~RollbackFailed) =>
    \A k \in 0..(NPairs - 1) : AtSource(k)

\* C2: apply_rename_pairs never loses a file: in every run with at most one
\* failing rename, the set of file contents in the directory when apply
\* returns is the set present before the call.
C2_NoFileLost ==
  (Done /\ failsLeft >= MaxFail - 1) => Contents(fs) = Contents(fs0)

\* Some pair's destination is the name of a source of the batch.
Overlap == \E k \in 0..(NPairs - 1) : PairDst(k) \in SrcSet(rename_pairs)

\* apply returned without error after a run in which no rename failed.
Succeeded == Done /\ NPairs > 0 /\ ret[2] = NoError /\ failsLeft = MaxFail

C4_PlanDestinationsUnique ==
  pc = "planned" =>
    \A i, j \in 1..Len(plans) :
      i # j => CaseFold(plans[i][2]) # CaseFold(plans[j][2])

\* The regular files of dir with extension .epub or .pdf in any letter case.
Eligible(dir) ==
  {n \in DOMAIN dir :
     dir[n] \notin DirNames /\ Lower(PathSuffix(n)) \in {".epub", ".pdf"}}

\* The place of a name in the lexicographic order of the paths.
Position(n) == CHOOSE k \in 1..Len(SortedNames) : SortedNames[k] = n

PlanSrc(i) == plans[i][1]
PlanDst(i) == plans[i][2]
PlanReason(i) == plans[i][3]

\* C11: build_plans_for_directory returns exactly one plan per regular file
\* with extension .epub or .pdf (any letter case), in lexicographic order of
\* the paths; a file whose metadata fetch raises is planned from BookMeta()
\* and the files after it are planned as well.
C11_OnePlanPerCandidate ==
  pc = "planned" =>
    /\ {PlanSrc(i) : i \in 1..Len(plans)} = Eligible(fs)
    /\ Len(plans) = Cardinality(Eligible(fs))
    /\ \A i, j \in 1..Len(plans) :
         i < j => Position(PlanSrc(i)) < Position(PlanSrc(j))
    /\ Len(metas) = Len(plans)
    /\ \A i \in 1..Len(plans) :
         PlanSrc(i) \in parse_raises =>
           /\ metas[i] = EmptyMeta
           /\ PlanReason(i).name_len =
                Len(PathStem(PlanSrc(i))) + Len(Lower(PathSuffix(PlanSrc(i))))

\* A pass returned in which the .EPUB file's parser raised, the file was
\* planned and a later file was planned after it.
C11_Witness ==
  /\ pc = "planned"
  /\ \E i, j \in 1..Len(plans) :
       /\ i < j
       /\ PlanSrc(i) = "B.EPUB"
       /\ PlanSrc(i) \in parse_raises
       /\ PlanDst(i) = "B.epub"
  /\ Exists(fs, "d.pdf")

\* base-n.ext
Numbered(name, n) == PathStem(name) \o "-" \o ToString(n) \o PathSuffix(name)

\* The largest collision counter a pass of the model can reach.
MaxCounter == MaxFiles + 4

\* A name is free for the i-th file: no directory entry has it and it is not
\* equal, ignoring case, to the destination of an earlier file.
Free(name, i) ==
  /\ ~Exists(fs, name)
  /\ \A j \in 1..(i - 1) : CaseFold(PlanDst(j)) # CaseFold(name)

\* C12: a file whose proposed name differs from its current name receives
\* the proposed name if it is free, otherwise base-n.ext for the smallest
\* n >= 2 that is free; every assigned destination is in the reserved set.
C12_SmallestFreeName ==
  /\ reserved_targets = {CaseFold(PlanDst(j)) : j \in 1..Len(plans)}
  /\ \A i \in 1..Len(plans) :
       LET proposed == Proposal(PlanSrc(i))
       IN  proposed # PlanSrc(i) =>
             IF Free(proposed, i) THEN PlanDst(i) = proposed
             ELSE \E n \in 2..MaxCounter :
                    /\ PlanDst(i) = Numbered(proposed, n)
                    /\ Free(PlanDst(i), i)
                    /\ \A m \in 2..(n - 1) : ~Free(Numbered(proposed, m), i)

\* A file was moved to base-2 only because an earlier file of the pass had
\* been given the proposed name, and another to base-3 past a directory
\* entry.
C12_Witness ==
  /\ \E i \in 1..Len(plans) :
       /\ Proposal(PlanSrc(i)) # PlanSrc(i)
       /\ ~Exists(fs, Proposal(PlanSrc(i)))
       /\ PlanDst(i) = Numbered(Proposal(PlanSrc(i)), 2)
  /\ \E i \in 1..Len(plans) : PlanDst(i) = "a-3.pdf"

\* C18: the preview warns whenever a plan's destination is longer than 200
\* characters (with the >255 warning beyond 255), collision suffix
\* included; equivalently name_len is the length of the destination.
C18_WarningCoversDestination ==
  pc = "previewed" =>
    \A i \in 1..Len(plans) :
      /\ Len(PlanDst(i)) > SAFE_FILENAME_LIMIT => notes[i] # ""
      /\ Len(PlanDst(i)) > WINDOWS_FILENAME_LIMIT => notes[i] = " [WARN: >255]"
      /\ PlanReason(i).name_len = Len(PlanDst(i))

\* The characters normalize_file_token removes or replaces.
ForbiddenChars ==
  Whitespace \cup
  {"\\", "/", ":", "*", "?", "\"", "<", ">", "|", ",", ";", "(", ")", "[", "]",
   "{", "}"}

AllWhitespace(s) == \A i \in 1..Len(s) : s[i] \in Whitespace

\* The error class of a name; dotted says whether it is in the dot class.
NameClass(s, dotted) ==
  IF AllWhitespace(s) THEN "target_empty"
  ELSE IF \E i \in 1..Len(s) : s[i] \in {"/", "\\"} THEN "target_path_separators"
  ELSE IF \E i \in 1..Len(s) : s[i] \in {":", "*", "?", "\"", "<", ">", "|"}
       THEN "target_windows_illegal_chars"
  ELSE IF dotted THEN "target_invalid_dot"
  ELSE NoCode

\* C13 (as stated): validate_target_filename returns the code of the first
\* of the four classes the name falls in (empty after trimming, path
\* separator, reserved character, equal to "." or ".."), and none for every
\* other name.
C13_FourClassesExact ==
  "validate" \in text_done =>
    verdict = NameClass(text, text \in {<<".">>, <<".", ".">>})

\* C13 (amended): the same with the fourth class read on the trimmed name:
\* the name is "." or ".." between any leading and trailing white space.
C13_FourClassesTrimmed ==
  "validate" \in text_done =>
    verdict = NameClass(text,
      \E i, j \in 1..Len(text) :
        /\ i <= j
        /\ SubSeq(text, i, j) \in {<<".">>, <<".", ".">>}
        /\ \A k \in 1..Len(text) : (k < i \/ k > j) => text[k] \in Whitespace)

\* A name that is "." after a leading space was refused as a dot name, and
\* the validator has run.
C13_Witness ==
  /\ "validate" \in text_done
  /\ Len(text) >= 2
  /\ text[1] = " "
  /\ text[2] = "."
  /\ verdict = "target_invalid_dot"

\* C14: normalize_file_token applied to its own result returns that result,
\* also when the result is the placeholder Unknown.
C14_SanitizeIdempotent ==
  "sanitize_again" \in text_done => token_again = token

\* The sanitizer ran twice on a text of punctuation that reduces to Unknown.
C14_Witness ==
  /\ "sanitize_again" \in text_done
  /\ text # <<>>
  /\ token = Unknown
  /\ token_again = Unknown

\* C15: the result of normalize_file_token is not empty, has no white space
\* and none of the characters the sanitizer replaces, neither starts nor
\* ends with "_" or ".", and is accepted by validate_target_filename, as is
\* every destination joined from such tokens.
C15_TokenIsValidName ==
  /\ "sanitize" \in text_done =>
       /\ token # <<>>
       /\ \A i \in 1..Len(token) : token[i] \notin ForbiddenChars
       /\ token[1] \notin {"_", "."}
       /\ token[Len(token)] \notin {"_", "."}
       /\ validate_target_filename(token) = NoCode
  /\ "destination" \in text_done => dest_verdict = NoCode

\* A text with a path separator, a reserved character and a dot was
\* sanitized, and a destination with author, year and counter was validated.
C15_Witness ==
  /\ "destination" \in text_done
  /\ Contains(text, {"/", "\\"})
  /\ Contains(text, {":"})
  /\ Contains(text, {"."})
  /\ token = Unknown
  /\ Len(dest) > 2 * Len(token) + Len(YearChars) + Len(PdfChars)

\* The written ordinals first..tenth and the qualifier words, in the
\* spellings of the model.
OrdinalSpellings == UNION {OrdinalRewrites[k][1] : k \in 1..Len(OrdinalRewrites)}
QualifierSpellings ==
  UNION {QualifierRewrites[k][1] : k \in 1..Len(QualifierRewrites)}

\* The word at position i of t is followed, after one space, by a word of
\* nexts.
FollowedBy(t, i, nexts) ==
  i + 2 <= Len(t) /\ t[i + 1] = " " /\ t[i + 2] \in nexts

\* Some ordinal or qualifier word of t is followed by the word Ed.
WordBeforeEd(t) ==
  \E i \in 1..Len(t) :
    t[i] \in OrdinalSpellings \cup QualifierSpellings /\ FollowedBy(t, i, {"Ed"})

\* Part one of C19: an ordinal first..tenth followed by Edition leaves its
\* token and no word Edition.
OrdinalBecomesToken ==
  \A k \in 1..Len(OrdinalRewrites) :
    (\E i \in 1..Len(title_in) :
       title_in[i] \in OrdinalRewrites[k][1]
       /\ FollowedBy(title_in, i, EditionWords))
    => /\ Contains(abbr, {OrdinalRewrites[k][2]})
       /\ ~Contains(abbr, EditionWords)

\* C19 (as stated): for a title in which an ordinal first..tenth, in any
\* letter case, is immediately followed by the word Edition, the result
\* contains the token 1e..10e and not the word Edition; and no result
\* contains an ordinal or qualifier word followed by Ed.
C19_OrdinalsNeverBeforeEd ==
  abbr_done => OrdinalBecomesToken /\ ~WordBeforeEd(abbr)

\* C19 (amended): the same, the second part for the titles that do not
\* already contain an ordinal or qualifier word followed by Ed.
C19_OrdinalsRewrittenFirst ==
  abbr_done =>
    /\ OrdinalBecomesToken
    /\ WordBeforeEd(abbr) => WordBeforeEd(title_in)

\* "..., THIRD edition" was abbreviated to "..., 3e".
C19_Witness ==
  /\ abbr_done
  /\ Len(title_in) = 6
  /\ SubSeq(title_in, 2, 6) = <<",", " ", "THIRD", " ", "edition">>
  /\ abbr = <<title_in[1], ",", " ", "3e">>

\* C16: build_new_name is idempotent: with the same metadata, the name it
\* proposes for the file renamed to the first proposal is that proposal.
C16_NamingIdempotent ==
  name_done = 2 =>
    /\ proposal_again.stem = proposal.stem
    /\ proposal_again.suffix = proposal.suffix

\* The stem reads Title-Author-Year: Title one sanitized token without
\* hyphen, Author two capitalized alphabetic words joined by "_" and
\* different from Title, Year a year.
CanonicalStem(t) ==
  \E i \in 1..Len(t) :
    LET head == SubSeq(t, 1, i - 1)
        rest == DropFirst(t, i - 1)
    IN  /\ head # <<>>
        /\ head = normalize_file_token(head)
        /\ ~Contains(head, {"-"})
        /\ Len(rest) = 6
        /\ rest[1] = "-" /\ rest[3] = "_" /\ rest[5] = "-"
        /\ rest[2] \in CapitalWords /\ rest[4] \in CapitalWords
        /\ rest[6] \in YearWords
        /\ head # SubSeq(rest, 2, 4)

\* The metadata title is absent or an opaque identifier, author and dates
\* are absent.
NoUsableMeta(m) ==
  /\ m.title = NoText \/ (Len(m.title) = 1 /\ m.title[1] \in OpaqueIds)
  /\ m.author = NoText
  /\ m.date = NoText
  /\ m.modified = NoText

\* C17: for a file named Title-Author-Year.ext with a lower-case extension
\* and no usable metadata, build_new_name resolves the author as the two
\* words separated by a space, the year as the one of the file name, and
\* returns the current file name.
C17_CanonicalNameUnchanged ==
  (/\ name_done >= 1
   /\ CanonicalStem(file_stem)
   /\ Lower(file_suffix) = file_suffix
   /\ NoUsableMeta(file_meta))
  => /\ proposal.author = <<file_stem[Len(file_stem) - 4], " ",
                            file_stem[Len(file_stem) - 2]>>
     /\ proposal.year = file_stem[Len(file_stem)]
     /\ proposal.stem = file_stem
     /\ proposal.suffix = file_suffix

\* folder_candidate or current_dir, resolved: the folder a confirm opens.
Selected ==
  Resolve(IF folder_candidate # NoPath THEN folder_candidate ELSE current_dir)

FolderState == <<current_dir, app_plans, working_targets, folder_hidden>>

\* C20: in the TUI a choose-folder action makes the folder overlay visible;
\* the overlay is hidden again only by a confirm (Enter, "folder_open") or
\* a cancel; Enter pressed while the overlay is visible and the selected
\* folder is an existing directory sets current_dir to the resolved folder,
\* rebuilds the plans for it, resets the working targets to the new plans'
\* destinations and hides the overlay; Enter pressed while the overlay is
\* hidden changes none of current_dir, plans, working targets and overlay.
C20_FolderOverlay ==
  [][ /\ (last_event'.handler = "choose_folder" /\ last_event' # last_event
            => ~folder_hidden')
      /\ (~folder_hidden /\ folder_hidden'
            => last_event'.handler \in {"key_enter", "folder_open", "folder_cancel"})
      /\ (last_event'.handler = "key_enter" /\ last_event' # last_event
          /\ ~folder_hidden /\ IsDir(Selected)
            => /\ current_dir' = Selected
               /\ Len(app_plans') = Len(CollectFiles(tree[Selected]))
               /\ app_plans' = build_plans_for_directory(tree[Selected])
               /\ working_targets' = [i \in 1..Len(app_plans') |-> app_plans'[i][2]]
               /\ folder_hidden')
      /\ (last_event'.handler = "key_enter" /\ folder_hidden
            => UNCHANGED FolderState)
    ]_vars

\* Enter, pressed while the overlay was visible over "/a", has opened the
\* folder the link points to: its plans are shown and the overlay is hidden.
C20_Witness ==
  /\ last_event = [handler |-> "key_enter", hidden |-> FALSE, dir |-> "/a"]
  /\ current_dir = "/b"
  /\ working_targets = <<"B.epub", "a-2.pdf">>
  /\ folder_hidden

ValidationErrors == {"Duplicate target filename", "Target already exists"}

\* The two refusal conditions, stated on the batch and the directory.
RejectCond(ps, dir) ==
  \/ \E i, j \in 1..Len(ps) : i # j /\ CaseFold(Dst(ps[i])) = CaseFold(Dst(ps[j]))
  \/ \E k \in 1..Len(ps) :
       Exists(dir, Dst(ps[k])) /\ \A j \in 1..Len(ps) : Src(ps[j]) # Dst(ps[k])

\* C5: apply_rename_pairs returns (0, error) without any filesystem operation
\* exactly when two destinations are equal case-insensitively or a
\* destination names an existing entry that is not a source of the batch;
\* otherwise validation passes.
C5_ValidationRefuses ==
  pc # "validate" =>
    /\ RejectCond(rename_pairs, fs0) <=> ret[2] \in ValidationErrors
    /\ RejectCond(rename_pairs, fs0) =>
         pc = "done" /\ ret[1] = 0 /\ fs = fs0 /\ log = <<>>
    /\ (~RejectCond(rename_pairs, fs0) /\ ChangedIdx # {} /\ Done) =>
         (log # <<>> \/ err = "stage")

\* A batch refused because two destinations differ only in letter case.
C5_Witness ==
  /\ Done /\ ret = <<0, "Duplicate target filename">> /\ NPairs = 2
  /\ PairDst(0) # PairDst(1)

\* C6: no temp-to-final rename is performed before every changed pair has
\* been renamed to its temporary name: all staging renames precede all
\* commit renames.
C6_StagingBeforeCommit ==
  \A p \in 1..Len(log) :
    log[p].op = "commit" =>
      /\ \A k \in ChangedIdx :
           \E q \in 1..(p - 1) :
             log[q].op = "stage" /\ log[q].pair = k /\ log[q].from = PairSrc(k)
      /\ \A q \in (p + 1)..Len(log) : log[q].op # "stage"

\* A commit rename of a batch with two changed pairs.
C6_Witness ==
  /\ Cardinality(ChangedIdx) = 2
  /\ \E p \in 1..Len(log) : log[p].op = "commit"

\* The renames of pair k among the first m entries of the log.
PairOps(k, m) ==
  {q \in 1..m : log[q].pair = k /\ log[q].op # "rollback_failed"}

Max(S) == CHOOSE x \in S : \A y \in S : y <= x

\* The state of pair k after the first m entries of the log.
PairState(k, m) ==
  IF PairOps(k, m) = {} THEN "Unrenamed"
  ELSE LET e == log[Max(PairOps(k, m))]
       IN  IF e.op = "stage" THEN "Staged"
           ELSE IF e.op = "commit" THEN "Committed"
           ELSE "Unrenamed"

\* The temporary name pair k was staged under, among the first m entries.
StagedAs(k, m) ==
  LET q == Max({r \in PairOps(k, m) : log[r].op = "stage"}) IN log[q].to

\* C7: each changed file moves only Unrenamed -> Staged -> Committed, with
\* Staged -> Unrenamed as the only backward transition, taken only during
\* rollback; a Committed file is never renamed again, and no file is
\* Committed without having been Staged.
C7_FileStateMachine ==
  \A p \in 1..Len(log) :
    LET e == log[p]
        before == PairState(e.pair, p - 1)
    IN  /\ before # "Committed"
        /\ e.op = "stage" =>
             /\ before = "Unrenamed"
             /\ e.from = PairSrc(e.pair)
             /\ \A q \in 1..(p - 1) : log[q].op \notin {"rollback", "rollback_failed"}
        /\ e.op = "commit" =>
             /\ before = "Staged"
             /\ e.from = StagedAs(e.pair, p - 1)
             /\ e.to = PairDst(e.pair)
             /\ \A q \in 1..(p - 1) : log[q].op \notin {"rollback", "rollback_failed"}
        /\ e.op \in {"rollback", "rollback_failed"} =>
             /\ before = "Staged"
             /\ e.from = StagedAs(e.pair, p - 1)
             /\ e.to = PairSrc(e.pair)
             /\ err # NoError

\* One pair was committed and another rolled back in the same call.
C7_Witness ==
  /\ Done
  /\ \E p, q \in 1..Len(log) : log[p].op = "commit" /\ log[q].op = "rollback"

\* Pairs whose source content is stored under the destination name.
MovedIdx ==
  {k \in ChangedIdx :
     /\ Exists(fs0, PairSrc(k))
     /\ Exists(fs, PairDst(k))
     /\ fs[PairDst(k)] = fs0[PairSrc(k)]}

\* C8: the count apply_rename_pairs returns is the number of batch files
\* stored under their destination name instead of their source name when
\* the call returns.
C8_CountIsNetRenames ==
  Done => ret[1] = Cardinality(MovedIdx)

\* C9: a pair whose destination equals the source's current name causes no
\* staging, commit or rollback rename and is not counted, whatever happens
\* to the other pairs.
C9_SameNamePairUntouched ==
  /\ \A p \in 1..Len(log) : log[p].pair \in ChangedIdx
  /\ \A q \in 1..Len(staged) : staged[q] \in ChangedIdx
  /\ Done => ret[1] <= Cardinality(ChangedIdx)
  /\ (Done /\ ret[2] = NoError /\ NPairs > 0) => ret[1] = Cardinality(ChangedIdx)
  /\ \A k \in (0..(NPairs - 1)) \ ChangedIdx :
       (\A j \in ChangedIdx : PairSrc(j) # PairSrc(k)) => AtSource(k)

\* A batch of an unchanged and a changed pair was applied: one rename counted.
C9_Witness ==
  /\ Done /\ ret = <<1, NoError>> /\ NPairs = 2
  /\ Cardinality(ChangedIdx) = 1

\* C10 (as stated): when staging a changed source fails, every source staged
\* before it is back under its original name, no commit rename was
\* attempted, and the call returns (0, error).
C10_StagingFailureRestores ==
  (Done /\ err = "stage") =>
    /\ fs = fs0
    /\ NoCommitInLog
    /\ ret = <<0, "stage">>

\* C10 (amended): when staging a changed source fails, a rollback rename is
\* attempted for every source staged before it, no commit rename is
\* attempted, the call returns (0, error), and the directory is as before
\* the call provided each rollback rename succeeds.
C10_StagingFailureRollsBack ==
  (Done /\ err = "stage") =>
    /\ NoCommitInLog
    /\ ret = <<0, "stage">>
    /\ \A q \in 1..Len(temp_moves) :
         \E p \in 1..Len(log) :
           /\ log[p].op \in {"rollback", "rollback_failed"}
           /\ log[p].pair = staged[q]
           /\ log[p].from = temp_moves[q][1]
           /\ log[p].to = temp_moves[q][2]
    /\ ~RollbackFailed => fs = fs0

\* Staging the second changed source failed and the first was renamed back.
C10_Witness ==
  /\ Done /\ err = "stage" /\ ~RollbackFailed
  /\ Len(temp_moves) = 1
  /\ \E p \in 1..Len(log) : log[p].op = "rollback"

\* main() has returned.
Returned == pc \in {"return 0", "return 1"}

C22_PlanIgnoresDirectory ==
  pc = "planned" =>
    /\ \A d \in PlanDirs :
         CollectFiles(d) = CollectFiles(fs) =>
           build_plans_for_directory(d) = plans
    /\ \A i \in 1..Len(plans) : \A j \in (i + 1)..Len(plans) :
         /\ Proposal(PlanSrc(i)) = PlanSrc(j)
         /\ \A k \in 1..(i - 1) :
              CaseFold(PlanDst(k)) # CaseFold(Proposal(PlanSrc(i)))
         => PlanDst(i) = Proposal(PlanSrc(i))

\* C23 as stated: after the plans have been applied successfully, planning
\* the directory again with the same metadata proposes for every file its
\* current name.
C23_RescanFixedPoint ==
  pc = "planned again" =>
    \A i \in 1..Len(plans) : plans[i][2] = plans[i][1]

\* C24: a staging rename takes a temporary name that no directory entry has
\* when it is chosen (the plain name when it is free, a re-randomized one
\* otherwise) and that no other pair of the batch was staged under, so the
\* rename replaces no entry.
C24_TempNameIsFree ==
  [][ Len(log') = Len(log) + 1 /\ log'[Len(log')].op = "stage" =>
        LET entry == log'[Len(log')]
        IN  /\ ~Exists(fs, entry.to)
            /\ entry.to = TmpName(entry.pair, entry.from)
                  \/ Exists(fs, TmpName(entry.pair, entry.from))
            /\ \A q \in 1..Len(temp_moves) : temp_moves[q][1] # entry.to
            /\ DOMAIN fs' = (DOMAIN fs \ {entry.from}) \cup {entry.to}
            /\ Cardinality(DOMAIN fs') = Cardinality(DOMAIN fs)
            /\ \A n \in DOMAIN fs \ {entry.from} : fs'[n] = fs[n] ]_vars

\* A source staged under a re-randomized name, the plain name and the
\* first random one being taken by left-overs, which are still there.
C24_Witness ==
  \E q \in 1..Len(log) :
    /\ log[q].op = "stage"
    /\ log[q].to = TmpNameRand(0, "ffff", log[q].from)
    /\ Exists(fs, TmpName(0, log[q].from))
    /\ Exists(fs, TmpNameRand(0, "00aa", log[q].from))

\* The field without its degrees: every PhD, MD and M.D. is taken out.
RECURSIVE WithoutDegrees(_)
WithoutDegrees(t) ==
  IF t = <<>> THEN <<>>
  ELSE IF Head(t) \in DegreeWords THEN WithoutDegrees(Tail(t))
  ELSE IF StartsWith(t, <<"M", ".", "D", ".">>) THEN WithoutDegrees(DropFirst(t, 4))
  ELSE <<Head(t)>> \o WithoutDegrees(Tail(t))

\* The field, degrees removed, trimmed of blanks, commas and semicolons.
AuthorField(t) == Strip(WithoutDegrees(t), {" ", ",", ";"})

\* The field is written "Last, First": one comma, a non-empty part on each
\* side, and no other separator between authors.
IsLastFirst(t) ==
  /\ Cardinality({i \in 1..Len(t) : t[i] = ","}) = 1
  /\ \A i \in 1..Len(t) : t[i] \notin {";", "and", "&"}
  /\ Len(Pieces(t, {","})) = 2
  /\ \A k \in 1..2 : Strip(Pieces(t, {","})[k], Whitespace) # <<>>

\* The first segment of the field split on comma, semicolon, " and ", " & ".
FirstSegment(t) ==
  LET cut == FirstAuthorCut(t, 1)
  IN  SubRuns(Strip(IF cut = 0 THEN t ELSE SubSeq(t, 1, cut - 1), Whitespace),
              Whitespace, " ")

\* C25 as stated: a field written "Last, First" is returned as "First
\* Last"; for every other field the result is the first segment of the
\* field, degrees removed, split on comma, semicolon, " and " or " & ",
\* and absent when that segment is empty.
C25_FirstAuthor ==
  call_done /\ pc = "split_first_author" =>
    LET field == AuthorField(call_args)
    IN  IF IsLastFirst(field)
        THEN call_value =
               SubRuns(Strip(Pieces(field, {","})[2], Whitespace) \o <<" ">>
                         \o Strip(Pieces(field, {","})[1], Whitespace),
                       Whitespace, " ")
        ELSE call_value = FirstSegment(field)

\* The position of the separator that occurs earliest in t, 0 if t holds
\* none, and the separator found there.
LeftmostCut(t) ==
  LET at == {Find(t, TitleCuts[k], 1) : k \in 1..Len(TitleCuts)} \ {0}
  IN  IF at = {} THEN 0 ELSE CHOOSE i \in at : \A j \in at : i <= j

CutAt(t, i) == CHOOSE k \in 1..Len(TitleCuts) : Find(t, TitleCuts[k], 1) = i

\* C26 as stated: the title is cut at the leftmost occurrence of any of the
\* separators and the head is returned, followed by the Nth Edition marker
\* of the tail when the tail has one and the head has none.
C26_CutAtEarliestSeparator ==
  call_done /\ pc = "main_title_only" =>
    LET t == clean_text(call_args)
        i == LeftmostCut(t)
    IN  IF i = 0 THEN call_value = Strip(t, Whitespace)
        ELSE LET head == SubSeq(t, 1, i - 1)
                 tail == DropFirst(t, i + Len(TitleCuts[CutAt(t, i)]) - 1)
                 e == FindPhrase(tail, 1, NumberedWords)
             IN  IF e # 0 /\ FindPhrase(head, 1, NumberedWords) = 0
                 THEN call_value =
                        Strip(head \o <<" ">>
                                \o SubSeq(tail, e, PhraseEnd(tail, e, NumberedWords)),
                              Whitespace)
                 ELSE call_value = Strip(head, Whitespace)

\* What choose_best_title compares: the two main titles and their normal
\* forms, for the stem and the metadata title it was given.
MetaMain == main_title_only(call_args[2])
FallbackMain == main_title_only(fallback_title_from_filename(call_args[1]))

TitleChosen ==
  /\ call_value \in {MetaMain, FallbackMain}
  /\ call_value # MetaMain =>
       StartsWith(normalize_title_for_compare(FallbackMain),
                  normalize_title_for_compare(MetaMain))

\* C27 as stated: the fallback is returned for a title that is absent,
\* shorter than 3 characters, or B and 9 letters (of either case) or digits
\* with an optional parenthetical; for every other title the result is the
\* metadata main title, or the fallback main title when the fallback's
\* normal form starts with the metadata title's.
C27_BadTitleFallsBack ==
  call_done /\ pc = "choose_best_title" =>
    LET meta == call_args[2]
    IN  IF \/ meta = NoText
           \/ TextLen(meta) < 3
           \/ meta # <<>> /\ meta[1] \in {"B01ABCDEFG", "B01abcdefg"}
              /\ (Len(meta) = 1 \/ meta[Len(meta)] = ")")
        THEN call_value = fallback_title_from_filename(call_args[1])
        ELSE TitleChosen

\* C27, amended: the fallback is returned for a title that is absent,
\* shorter than 3 characters once trimmed, or B and 9 upper-case letters or
\* digits with an optional parenthetical; for every other title the result
\* is chosen as stated.
C27_UnusableTitleFallsBack ==
  call_done /\ pc = "choose_best_title" =>
    LET meta == Strip(call_args[2], Whitespace)
    IN  IF \/ TextLen(meta) < 3
           \/ meta[1] = "B01ABCDEFG" /\ (Len(meta) = 1 \/ meta[Len(meta)] = ")")
        THEN call_value = fallback_title_from_filename(call_args[1])
        ELSE TitleChosen

\* An identifier with a parenthetical as the title: the stem's title is
\* returned.
C27_Witness ==
  /\ call_done
  /\ call_args = << <<"Dune", " ", "-", " ", "Code">>,
                    <<"B01ABCDEFG", " ", "(", "Code", ")">> >>
  /\ call_value = <<"Dune">>

\* C28 as stated: a title that ends with a separator and the author, its
\* words joined by a blank, "_" or "-", optionally followed by the year, is
\* returned without that tail; when nothing would be left, the title is
\* returned as it is.
C28_AuthorTailRemoved ==
  call_done /\ pc = "strip_author_from_title" =>
    \A head \in StripHeads, sep \in TailSeparators, j \in AuthorJoins,
       words \in StripAuthors :
      \A y \in YearTails(call_args[3]) :
        /\ call_args[2] = Spelled(words, " ")
        /\ call_args[1] = head \o sep \o Spelled(words, j) \o y
        => call_value = IF head = <<>> THEN call_args[1] ELSE head

\* Pairwise distinct case-insensitively, and each accepted by
\* validate_target_filename.
GoodTargets(ts) ==
  /\ \A i, j \in 1..Len(ts) : i # j => CaseFold(ts[i]) # CaseFold(ts[j])
  /\ \A i \in 1..Len(ts) : TargetError(ts[i]) = NoCode

\* The value read from #edit_input fails validate_target_filename or equals
\* the target of another row case-insensitively.
EditRefused(input) ==
  \/ validate_target_filename(input[1]) # NoCode
  \/ \E i \in 1..Len(working_targets) :
       /\ i - 1 # editing_row
       /\ CaseFold(working_targets[i]) = CaseFold(input[2])

\* C29: in the TUI, whatever edit, save, cancel, folder and language actions
\* were taken, there are as many working targets as plans, and working
\* targets that were pairwise distinct case-insensitively and valid when the
\* plans were loaded still are; a save whose value fails
\* validate_target_filename or equals another row's target
\* case-insensitively changes no working target and leaves the edit overlay
\* open.
C29_TargetsStayGood ==
  /\ [](Len(working_targets) = Len(app_plans))
  /\ [](GoodTargets(Targets(app_plans)) => GoodTargets(working_targets))
  /\ [][ last_event'.handler = "edit_save" /\ ~edit_hidden
         /\ EditRefused(last_event'.value)
           => working_targets' = working_targets /\ ~edit_hidden'
      ]_vars

\* The target of the second row of "/b" was edited to z.pdf; then B.EPUB,
\* typed for the same row, was refused because the first row's target is
\* B.epub: the targets are as before and the edit overlay is still open.
C29_Witness ==
  /\ last_event.handler = "edit_save"
  /\ last_event.value[2] = "B.EPUB"
  /\ editing_row = 1
  /\ working_targets = <<"B.epub", "z.pdf">>
  /\ GoodTargets(Targets(app_plans))
  /\ ~edit_hidden
  /\ ~message_hidden

====
